---------------------------- MODULE Spec2Model ----------------------------
(***************************************************************************)
(* A model of the rewrite drivers of aesara/graph/opt.py: MergeFeature and *)
(* MergeOptimizer, NavigatorOptimizer.process_node, TopoOptimizer,         *)
(* EquilibriumOptimizer and SeqOptimizer, over a FunctionGraph whose       *)
(* mutation primitives (import, prune, change of an input, replace,        *)
(* validate, revert) fire the feature callbacks synchronously.             *)
(***************************************************************************)
EXTENDS Integers, Sequences, FiniteSets, TLC

(***************************************************************************)
(* Bounds of the model.                                                    *)
(***************************************************************************)
\* Size of the pool of Apply objects (resident, pruned or not yet built).
MaxNodes == 7
\* Number of graph mutations the surrounding rewriters make around merge passes.
MaxEnvSteps == 1
\* The number of consecutive merge passes without a change in between.
MaxRuns == 2
\* The length of the list of a SeqOptimizer.
MaxSeq == 3

(***************************************************************************)
(* Values.  A variable is <<kind, a, b>>: a graph input <<"in", k, 0>>, a *)
(* Constant <<"const", k, 0>> or output b of Apply node a <<"out", a, b>>. *)
(***************************************************************************)
Nodes == 1..MaxNodes
\* The literal client "output" of FunctionGraph is written as node 0.
OUTPUT == 0
InVar(k) == <<"in", k, 0>>
ConstVar(k) == <<"const", k, 0>>
OutVar(n, j) == <<"out", n, j>>
InputVars == {InVar(1), InVar(2)}
ConstVars == {ConstVar(1), ConstVar(2), ConstVar(3), ConstVar(4)}
OutVars == {OutVar(n, j) : n \in Nodes, j \in 1..2}
AllVars == InputVars \cup ConstVars \cup OutVars

IsConstant(v) == v[1] = "const"
HasOwner(v) == v[1] = "out"
Owner(v) == v[2]

\* Constant.merge_signature(): constants 1, 2 and 3 are equal in value and
\* type, constant 4 differs.
MergeSignature(c) == IF c[2] = 4 THEN "two" ELSE "one"
Signatures == {"one", "two"}

\* Operators are named by strings.  "inplace" destroys its first input (destroy_map {0: [0]}),
\* "split" has two outputs, "rand" has no input.
NOut(o) == IF o = "split" THEN 2 ELSE 1
DestroyMap(o) == IF o = "inplace" THEN {1} ELSE {}

(***************************************************************************)
(* Sequence helpers.                                                       *)
(***************************************************************************)
Range(s) == {s[i] : i \in DOMAIN s}
Last(s) == s[Len(s)]
Front(s) == SubSeq(s, 1, Len(s) - 1)

RECURSIVE RemoveFirst(_, _)
\* list.remove(e): drops the first occurrence of e.
RemoveFirst(s, e) ==
    IF s = <<>> THEN <<>>
    ELSE IF Head(s) = e THEN Tail(s)
    ELSE <<Head(s)>> \o RemoveFirst(Tail(s), e)

RECURSIVE SelectSeq2(_, _)
\* The elements of s that belong to the set S, in order.
SelectSeq2(s, S) ==
    IF s = <<>> THEN <<>>
    ELSE (IF Head(s) \in S THEN <<Head(s)>> ELSE <<>>) \o SelectSeq2(Tail(s), S)


(***************************************************************************)
(* The FunctionGraph and the Apply objects it refers to, as one record g:  *)
(*   op, inputs     Apply.op and Apply.inputs of every Apply object built  *)
(*                  so far (op "none": not built);                         *)
(*   outputs, clients, apply_nodes, variables    the FunctionGraph fields; *)
(*   destroy_handler   whether a DestroyHandler is attached;               *)
(*   history, reverting   the History feature behind checkpoint/revert;    *)
(*   merge_feature .. blacklist   the MergeFeature and its fields;         *)
(*   change_tracker, changed, nb_imported   the ChangeTracker;             *)
(*   updater, chin, q, current_node   the Updater a driver attaches, with  *)
(*                  the worklist its importer closure appends to.          *)
(***************************************************************************)
NoNode == 0 - 1
OutputsOf(g, n) == {OutVar(n, j) : j \in 1..NOut(g.op[n])}
OutputSeq(g, n) == [j \in 1..NOut(g.op[n]) |-> OutVar(n, j)]
OwnerOrNone(v) == IF HasOwner(v) THEN Owner(v) ELSE NoNode

\* The owners of the inputs of node n.
InputOwners(g, n) ==
    {Owner(g.inputs[n][i]) : i \in {k \in DOMAIN g.inputs[n] : HasOwner(g.inputs[n][k])}}

RECURSIVE NodeClosure(_, _, _)
\* The nodes reachable from the nodes of frontier through inputs (seen included).
NodeClosure(g, frontier, seen) ==
    IF frontier = {} THEN seen
    ELSE LET above == UNION {InputOwners(g, n) : n \in frontier}
         IN NodeClosure(g, above \ seen, seen \cup above)

\* The nodes a value depends on (its owner and the owners above it).
AncestorsOfVar(g, v) ==
    IF ~HasOwner(v) THEN {} ELSE NodeClosure(g, {Owner(v)}, {Owner(v)})

(***************************************************************************)
(* MergeFeature (callbacks of the merger's index).                         *)
(***************************************************************************)
\* MergeFeature.process_constant
process_constant(g, c) ==
    IF c \in g.seen_constants THEN g
    ELSE LET sig == MergeSignature(c)
             other_c == g.const_sig_inv[sig]
         IN IF other_c # <<>>
            THEN [g EXCEPT !.scheduled = Append(@, << << <<c, other_c, "merge">> >> >>)]
            ELSE [g EXCEPT !.const_sig = @ \cup {c},
                           !.const_sig_inv[sig] = c,
                           !.seen_constants = @ \cup {c}]

\* inputs_match of process_node: pointwise identity of the two input lists
\* (zip stops at the shorter list).
InputsIdentical(a, b) ==
    \A i \in 1..(IF Len(a) < Len(b) THEN Len(a) ELSE Len(b)) : a[i] = b[i]

\* The candidate list of process_node: the seen clients of the first or last
\* input, whichever has fewer clients, or every seen node without inputs.
MergeCandidates(g, node) ==
    IF g.inputs[node] # <<>>
    THEN LET a_clients == g.clients[g.inputs[node][1]]
             b_clients == g.clients[Last(g.inputs[node])]
             clients == IF Len(a_clients) < Len(b_clients) THEN a_clients ELSE b_clients
         IN SelectSeq2([k \in DOMAIN clients |-> clients[k][1]], g.nodes_seen)
    ELSE g.noinput_nodes

\* Whether process_node schedules candidate as a replacement of node.
CandidateMatches(g, node, candidate) ==
    /\ candidate # node
    /\ Len(g.inputs[node]) = Len(g.inputs[candidate])
    /\ InputsIdentical(g.inputs[node], g.inputs[candidate])
    /\ g.op[node] = g.op[candidate]
    /\ <<node, candidate>> \notin Range(g.blacklist)

\* The plan replacing every output of node by the output of candidate.
MergePairs(g, node, candidate) ==
    [j \in 1..NOut(g.op[node]) |-> <<OutVar(node, j), OutVar(candidate, j), "merge">>]

RECURSIVE ReplacementCandidates(_, _, _)
ReplacementCandidates(g, node, cands) ==
    IF cands = <<>> THEN <<>>
    ELSE (IF CandidateMatches(g, node, Head(cands))
          THEN <<MergePairs(g, node, Head(cands))>> ELSE <<>>)
         \o ReplacementCandidates(g, node, Tail(cands))

\* MergeFeature.process_node
process_node(g, node) ==
    IF node \in g.nodes_seen THEN g
    ELSE LET replacement_candidates ==
                 ReplacementCandidates(g, node, MergeCandidates(g, node))
         IN IF replacement_candidates # <<>>
            THEN [g EXCEPT !.scheduled = Append(@, replacement_candidates)]
            ELSE [g EXCEPT !.nodes_seen = @ \cup {node},
                           !.noinput_nodes =
                               IF g.inputs[node] = <<>> /\ node \notin Range(@)
                               THEN Append(@, node) ELSE @]

RECURSIVE ProcessConstants(_, _)
\* for c in node.inputs: if isinstance(c, Constant): process_constant(c)
ProcessConstants(g, ins) ==
    IF ins = <<>> THEN g
    ELSE ProcessConstants(IF IsConstant(Head(ins)) THEN process_constant(g, Head(ins)) ELSE g,
                          Tail(ins))

\* MergeFeature.on_import
MergeFeature_on_import(g, node) ==
    process_node(ProcessConstants(g, g.inputs[node]), node)

\* if isinstance(new_r, Constant): self.process_constant(fgraph, new_r)
ProcessIfConstant(g, new_r) ==
    IF IsConstant(new_r) THEN process_constant(g, new_r) ELSE g

\* MergeFeature.on_change_input (node is OUTPUT for a graph output)
MergeFeature_on_change_input(g, node, new_r) ==
    ProcessIfConstant(IF node \in g.nodes_seen
                      THEN process_node([g EXCEPT !.nodes_seen = @ \ {node}], node)
                      ELSE g,
                      new_r)

RECURSIVE PruneConstants(_, _)
\* The loop of on_prune over the inputs of the pruned node: a constant whose
\* client list has at most one entry loses its signature entries.
PruneConstants(g, ins) ==
    IF ins = <<>> THEN g
    ELSE LET c == Head(ins)
             g1 == IF IsConstant(c) /\ Len(g.clients[c]) <= 1
                   THEN [g EXCEPT !.const_sig = @ \ {c},
                                  !.const_sig_inv =
                                      IF c \in g.const_sig
                                      THEN [@ EXCEPT ![MergeSignature(c)] = <<>>]
                                      ELSE @,
                                  !.seen_constants = @ \ {c}]
                   ELSE g
         IN PruneConstants(g1, Tail(ins))

\* As MergeFeature.on_prune, for a feature that keeps pruned nodes in its index.
MergeFeature_on_prune_keeps_seen(g, node) == PruneConstants(g, g.inputs[node])

\* MergeFeature.on_prune
MergeFeature_on_prune(g, node) ==
    LET g1 == [g EXCEPT !.nodes_seen = @ \ {node},
                        !.noinput_nodes =
                            IF g.inputs[node] = <<>> THEN RemoveFirst(@, node) ELSE @]
    IN PruneConstants(g1, g.inputs[node])

(***************************************************************************)
(* ChangeTracker and Updater.                                              *)
(***************************************************************************)
\* ChangeTracker.on_import
ChangeTracker_on_import(g) ==
    [g EXCEPT !.nb_imported = @ + 1, !.changed = TRUE]

\* As ChangeTracker.on_change_input, for a tracker that records imports only.
ChangeTracker_ignores_change_input(g) == g

\* ChangeTracker.on_change_input
ChangeTracker_on_change_input(g) == [g EXCEPT !.changed = TRUE]

\* The test `node.op == op` of the importer closure of OpKeyOptimizer, op
\* being the value of op_key(): an Op is not equal to a list.  The closures
\* of the other drivers make no such test (op_key of kind "any").
ImporterTakes(g, node) ==
    g.op_key.kind = "any" \/ (g.op_key.kind = "op" /\ g.op[node] = g.op_key.op)

\* Updater.on_import with the importer closure of the drivers:
\* if node is not current_node: q.append(node)
Updater_on_import(g, node) ==
    IF g.importer /\ node # g.current_node /\ ImporterTakes(g, node)
    THEN [g EXCEPT !.q = Append(@, node)] ELSE g

\* Updater.on_change_input with the chin closure of EquilibriumOptimizer.
Updater_on_change_input(g, node) ==
    IF g.chin /\ node # g.current_node /\ node # OUTPUT
    THEN [g EXCEPT !.q = Append(@, node)] ELSE g

(***************************************************************************)
(* FunctionGraph.execute_callbacks: the features in the order attached.    *)
(***************************************************************************)
\* Each feature's callback, when the feature is attached.
History_on_change_input(g, node, i, r) ==
    IF g.reverting THEN g ELSE [g EXCEPT !.history = Append(@, <<node, i, r>>)]
IfMergeFeature_on_import(g, node) ==
    IF g.merge_feature THEN MergeFeature_on_import(g, node) ELSE g
IfMergeFeature_on_change_input(g, node, new_r) ==
    IF g.merge_feature THEN MergeFeature_on_change_input(g, node, new_r) ELSE g
IfChangeTracker_on_import(g) ==
    IF g.change_tracker THEN ChangeTracker_on_import(g) ELSE g
IfChangeTracker_on_change_input(g) ==
    IF g.change_tracker THEN ChangeTracker_on_change_input(g) ELSE g
IfUpdater_on_import(g, node) ==
    IF g.updater THEN Updater_on_import(g, node) ELSE g
IfUpdater_on_change_input(g, node) ==
    IF g.updater THEN Updater_on_change_input(g, node) ELSE g

ExecOnImport(g, node) ==
    IfUpdater_on_import(IfChangeTracker_on_import(IfMergeFeature_on_import(g, node)), node)

ExecOnPrune(g, node) ==
    IF g.merge_feature THEN MergeFeature_on_prune(g, node) ELSE g

ExecOnChangeInput(g, node, i, r, new_r) ==
    IfUpdater_on_change_input(
        IfChangeTracker_on_change_input(
            IfMergeFeature_on_change_input(History_on_change_input(g, node, i, r),
                                           node, new_r)),
        node)

(***************************************************************************)
(* FunctionGraph mutation primitives.                                      *)
(***************************************************************************)
RECURSIVE AddClients(_, _, _, _)
\* for i, input in enumerate(node.inputs): add_client(input, (node, i))
AddClients(cl, ins, n, i) ==
    IF i > Len(ins) THEN cl
    ELSE AddClients([cl EXCEPT ![ins[i]] = Append(@, <<n, i>>)], ins, n, i + 1)

RECURSIVE ImportNode(_, _)
RECURSIVE ImportOwners(_, _)
\* FunctionGraph.import_node: the nodes above n that are not resident are
\* imported first (input order), each firing on_import.
SetupNode(g, n) ==
    [g EXCEPT !.apply_nodes = @ \cup {n}, !.imported = @ \cup {n},
              !.variables = @ \cup OutputsOf(g, n) \cup Range(g.inputs[n]),
              !.clients = AddClients(@, g.inputs[n], n, 1)]

ImportNode(g, n) == ExecOnImport(SetupNode(ImportOwners(g, g.inputs[n]), n), n)

ImportOwners(g, ins) ==
    IF ins = <<>> THEN g
    ELSE ImportOwners(IF HasOwner(Head(ins)) /\ Owner(Head(ins)) \notin g.apply_nodes
                      THEN ImportNode(g, Owner(Head(ins))) ELSE g,
                      Tail(ins))

\* FunctionGraph.import_var
ImportVar(g, v) ==
    [(IF HasOwner(v) /\ Owner(v) \notin g.apply_nodes
      THEN ImportNode(g, Owner(v)) ELSE g) EXCEPT !.variables = @ \cup {v}]

RECURSIVE RemoveClient(_, _)
\* The pruned node's own client entries, pushed on the removal stack.
PushInputs(g, removal_stack, n) ==
    RemoveClient(g, removal_stack \o [i \in DOMAIN g.inputs[n] |->
                                          <<g.inputs[n][i], <<n, i>>>>])

\* The node n leaves the graph: on_prune fires, then its inputs lose a client.
PruneNode(g, removal_stack, n) ==
    PushInputs(ExecOnPrune([g EXCEPT !.apply_nodes = @ \ {n}, !.pruned = @ \cup {n},
                                     !.variables = @ \ OutputsOf(g, n)], n),
               removal_stack, n)

\* FunctionGraph.remove_client with its removal stack of <<var, client>>: a
\* value left without clients leaves the graph, and so does its owner when
\* none of its outputs has a client (on_prune fires before the node's own
\* client entries are removed).
RemoveClient(g, removal_stack) ==
    IF removal_stack = <<>> THEN g
    ELSE LET var == Last(removal_stack)[1]
             client_to_remove == Last(removal_stack)[2]
             rest == Front(removal_stack)
         IN IF client_to_remove \notin Range(g.clients[var])
            THEN RemoveClient(g, rest)
            ELSE LET g1 == [g EXCEPT !.clients[var] = RemoveFirst(@, client_to_remove)]
                 IN IF g1.clients[var] # <<>> THEN RemoveClient(g1, rest)
                    ELSE IF ~HasOwner(var)
                    THEN RemoveClient([g1 EXCEPT !.variables = @ \ {var}], rest)
                    ELSE IF \E o \in OutputsOf(g1, Owner(var)) : g1.clients[o] # <<>>
                    THEN RemoveClient(g1, rest)
                    ELSE PruneNode(g1, rest, Owner(var))

\* FunctionGraph.change_node_input
ChangeNodeInput(g, node, i, new_var) ==
    LET r == IF node = OUTPUT THEN g.outputs[i] ELSE g.inputs[node][i]
    IN IF r = new_var THEN g
       ELSE ExecOnChangeInput(
                RemoveClient(
                    [ImportVar(IF node = OUTPUT THEN [g EXCEPT !.outputs[i] = new_var]
                               ELSE [g EXCEPT !.inputs[node][i] = new_var],
                               new_var)
                        EXCEPT !.clients[new_var] = Append(@, <<node, i>>)],
                    << <<r, <<node, i>>>> >>),
                node, i, r, new_var)

RECURSIVE ChangeClients(_, _, _)
\* The loop of FunctionGraph.replace over the client list as it was on entry.
ChangeClients(g, cls, new_var) ==
    IF cls = <<>> THEN g
    ELSE ChangeClients(ChangeNodeInput(g, Head(cls)[1], Head(cls)[2], new_var),
                       Tail(cls), new_var)

\* FunctionGraph.replace: a value that is not in the graph is left alone.
Replace(g, var, new_var) ==
    IF var \notin g.variables THEN g
    ELSE ChangeClients(g, g.clients[var], new_var)

RECURSIVE ReplaceAll(_, _)
\* FunctionGraph.replace_all
ReplaceAll(g, pairs) ==
    IF pairs = <<>> THEN g
    ELSE ReplaceAll(Replace(g, Head(pairs)[1], Head(pairs)[2]), Tail(pairs))

\* The clients of v that destroy it: (c, i) with i in c.op.destroy_map.
Destroyers(g, v) ==
    {k \in DOMAIN g.clients[v] :
        /\ g.clients[v][k][1] # OUTPUT
        /\ g.clients[v][k][2] \in DestroyMap(g.op[g.clients[v][k][1]])}

\* Whether some resident node depends on itself.
HasCycle(g) ==
    \E n \in g.apply_nodes :
        n \in NodeClosure(g, InputOwners(g, n), InputOwners(g, n))

\* FunctionGraph.validate with a DestroyHandler: at most one destroyer per
\* value, no destroyed graph input or constant, every other client of a
\* destroyed value computable before its destroyer, and no cycle.  Without
\* destroyers (or without the handler) nothing is checked.
Validate(g) ==
    \/ ~g.destroy_handler
    \/ \A v \in g.variables : Destroyers(g, v) = {}
    \/ /\ ~HasCycle(g)
       /\ \A v \in g.variables :
            /\ Cardinality(Destroyers(g, v)) <= 1
            /\ Destroyers(g, v) # {} => HasOwner(v)
            /\ \A k \in Destroyers(g, v) : \A m \in DOMAIN g.clients[v] :
                 LET d == g.clients[v][k][1]
                     c == g.clients[v][m][1]
                 IN (c # OUTPUT /\ c # d) =>
                      d \notin NodeClosure(g, InputOwners(g, c), InputOwners(g, c))

RECURSIVE Revert(_)
\* History.revert: undoes the recorded input changes, last first.
Revert(g) ==
    IF g.history = <<>> THEN [g EXCEPT !.reverting = FALSE]
    ELSE Revert(ChangeNodeInput([g EXCEPT !.history = Front(@), !.reverting = TRUE],
                                Last(g.history)[1], Last(g.history)[2],
                                Last(g.history)[3]))

\* fgraph.validate() after the replacements, and the revert when it raises.
\* veto: a feature other than the DestroyHandler rejects the graph.
ValidateOrRevert(g, veto) ==
    IF ~veto /\ Validate(g) THEN <<[g EXCEPT !.history = <<>>], TRUE>>
    ELSE <<Revert(g), FALSE>>

\* ReplaceValidate.replace_all_validate: <<graph, ok>>; not ok stands for the
\* exception raised after the revert.
ReplaceAllValidate(g, pairs, veto) ==
    ValidateOrRevert(ReplaceAll([g EXCEPT !.history = <<>>], pairs), veto)

RECURSIVE IoToposortLoop(_, _, _, _)
\* The stack loop of io_toposort (no orderings): a node is emitted once all
\* its inputs are computed, else it is pushed back under the owners of its
\* inputs.
IoToposortLoop(g, todo, computed, order) ==
    IF todo = <<>> THEN order
    ELSE LET cur == Last(todo)
             ins == g.inputs[cur]
         IN IF OutVar(cur, 1) \in computed
            THEN IoToposortLoop(g, Front(todo), computed, order)
            ELSE IF \A i \in DOMAIN ins : ins[i] \in computed \/ ~HasOwner(ins[i])
            THEN IoToposortLoop(g, Front(todo), computed \cup OutputsOf(g, cur),
                                Append(order, cur))
            ELSE IoToposortLoop(g,
                     todo \o [k \in 1..Len(SelectSeq2(ins, OutVars)) |->
                                 Owner(SelectSeq2(ins, OutVars)[k])],
                     computed, order)

\* io_toposort(fgraph.inputs, outputs)
IoToposort(g, outs) ==
    LET owned == SelectSeq2(outs, OutVars)
    IN IoToposortLoop(g, [k \in 1..Len(owned) |-> Owner(owned[Len(owned) + 1 - k])],
                      InputVars, <<>>)

(***************************************************************************)
(* Construction of a FunctionGraph and attachment of the MergeFeature.     *)
(* The fields imported and pruned log the nodes for which on_import and    *)
(* on_prune fired (history of the graph, read by no operation).            *)
(***************************************************************************)
\* The record of a graph without nodes or features.
EmptyGraph ==
    [op |-> [n \in Nodes |-> "none"], inputs |-> [n \in Nodes |-> <<>>],
     outputs |-> <<>>, clients |-> [v \in AllVars |-> <<>>],
     apply_nodes |-> {}, variables |-> {}, destroy_handler |-> FALSE,
     history |-> <<>>, reverting |-> FALSE,
     merge_feature |-> FALSE, seen_constants |-> {}, const_sig |-> {},
     const_sig_inv |-> [sg \in Signatures |-> <<>>], nodes_seen |-> {},
     noinput_nodes |-> <<>>, scheduled |-> <<>>, blacklist |-> <<>>,
     change_tracker |-> FALSE, changed |-> FALSE, nb_imported |-> 0,
     updater |-> FALSE, importer |-> FALSE, chin |-> FALSE, q |-> <<>>,
     current_node |-> NoNode, imported |-> {}, pruned |-> {},
     op_key |-> [kind |-> "any"]]

RECURSIVE ImportOutputs(_, _)
ImportOutputs(g, outs) ==
    IF outs = <<>> THEN g ELSE ImportOutputs(ImportVar(g, Head(outs)), Tail(outs))

\* FunctionGraph.__init__: imports the outputs, then registers the clients
\* ("output", i).
NewFunctionGraph(ops, ins, outs, dh) ==
    LET g0 == [EmptyGraph EXCEPT !.op = ops, !.inputs = ins, !.outputs = outs,
                                 !.destroy_handler = dh]
        g1 == ImportOutputs(g0, outs)
    IN [g1 EXCEPT !.clients = AddClients(@, outs, OUTPUT, 1)]

RECURSIVE ImportAll(_, _)
ImportAll(g, order) ==
    IF order = <<>> THEN g
    ELSE ImportAll(MergeFeature_on_import(g, Head(order)), Tail(order))

\* MergeFeature.on_attach: empty index, then on_import of every node in
\* toposort order.
MergeFeature_on_attach(g) ==
    ImportAll([g EXCEPT !.merge_feature = TRUE, !.seen_constants = {},
                        !.const_sig = {},
                        !.const_sig_inv = [sg \in Signatures |-> <<>>],
                        !.nodes_seen = {}, !.noinput_nodes = <<>>,
                        !.scheduled = <<>>, !.blacklist = <<>>],
              IoToposort(g, g.outputs))

(***************************************************************************)
(* State.                                                                  *)
(*   fgraph        the FunctionGraph record described above                *)
(*   merge_pc      position of MergeOptimizer.apply: "idle" (not running), *)
(*                 "loop" (at `while sched`), "plans" (in the for loop)    *)
(*   pairs_list, plan_idx, success, nb_fail, nb_merged, nb_constant        *)
(*                 locals of MergeOptimizer.apply                          *)
(*   env_steps     graph mutations made by the surrounding rewriters       *)
(*   last_plan     what the last iteration of the for loop did (history    *)
(*                 variable): outcome, the two endpoints, and what held of *)
(*                 them when the replacement was called                    *)
(*   rejected      pairs (node, candidate) whose plan was rejected by a    *)
(*                 destroy conflict (history variable)                     *)
(***************************************************************************)
VARIABLES fgraph, merge_pc, pairs_list, plan_idx, success, nb_fail, nb_merged,
          nb_constant, env_steps, last_plan, rejected, runs, before,
          self, frame, trace

\* The state of the merge pass, and the state of the other drivers.
merge_only == <<merge_pc, pairs_list, plan_idx, success, nb_fail, nb_merged,
                nb_constant, env_steps, last_plan, rejected, runs, before>>
driver_vars == <<self, frame, trace>>
merge_vars == <<fgraph, merge_only, driver_vars>>

\* The node set and structure of a graph.
Structure(g) ==
    [apply_nodes |-> g.apply_nodes,
     nodes |-> [n \in g.apply_nodes |-> <<g.op[n], g.inputs[n]>>],
     outputs |-> g.outputs]

x == InVar(1)
y == InVar(2)
O(n) == OutVar(n, 1)

\* A graph given by the list of its nodes <<op, inputs>> and its outputs.
GraphOf(nodes, outs, dh) ==
    NewFunctionGraph([n \in Nodes |-> IF n <= Len(nodes) THEN nodes[n][1] ELSE "none"],
                     [n \in Nodes |-> IF n <= Len(nodes) THEN nodes[n][2] ELSE <<>>],
                     outs, dh)

\* The graphs the merger is run on.
MergeGraphs ==
    { \* two identical nodes, each with one (identical) client
      GraphOf(<< <<"add", <<x, y>>>>, <<"add", <<x, y>>>>, <<"neg", <<O(1)>>>>,
                 <<"neg", <<O(2)>>>> >>, <<O(3), O(4)>>, FALSE),
      \* two equal constants used by separate nodes
      GraphOf(<< <<"add", <<x, ConstVar(1)>>>>, <<"mul", <<x, ConstVar(2)>>>> >>,
              <<O(1), O(2)>>, FALSE),
      \* three equal constants used by separate nodes, beside another constant
      GraphOf(<< <<"add", <<x, ConstVar(1)>>>>, <<"mul", <<x, ConstVar(2)>>>>,
                 <<"sub", <<ConstVar(3), ConstVar(4)>>>> >>, <<O(1), O(2), O(3)>>, FALSE),
      \* identical nodes whose outputs are both destroyed
      GraphOf(<< <<"mul", <<x, y>>>>, <<"mul", <<x, y>>>>, <<"inplace", <<O(1)>>>>,
                 <<"inplace", <<O(2)>>>> >>, <<O(3), O(4)>>, TRUE),
      \* identical nodes, one destroyed by a node the other's client depends on
      GraphOf(<< <<"mul", <<x, y>>>>, <<"mul", <<x, y>>>>, <<"inplace", <<O(1)>>>>,
                 <<"add", <<O(2), O(3)>>>> >>, <<O(4)>>, TRUE),
      \* the same, the client having a further input
      GraphOf(<< <<"mul", <<x, y>>>>, <<"mul", <<x, y>>>>, <<"inplace", <<O(1)>>>>,
                 <<"neg", <<x>>>>, <<"add", <<O(2), O(4), O(3)>>>> >>, <<O(5)>>, TRUE),
      \* identical nodes beside a CheckAndRaise of their input
      GraphOf(<< <<"CheckAndRaise", <<x, y>>>>, <<"add", <<x, y>>>>,
                 <<"add", <<x, y>>>> >>, <<O(1), O(2), O(3)>>, FALSE),
      \* identical nodes without inputs
      GraphOf(<< <<"rand", <<>>>>, <<"rand", <<>>>>, <<"add", <<O(1), O(2)>>>> >>,
              <<O(3)>>, FALSE),
      \* identical nodes with two outputs
      GraphOf(<< <<"split", <<x>>>>, <<"split", <<x>>>>,
                 <<"add", <<OutVar(1, 1), OutVar(1, 2)>>>>,
                 <<"add", <<OutVar(2, 1), OutVar(2, 2)>>>> >>, <<O(3), O(4)>>, FALSE),
      \* identical nodes with two outputs, the second ones both destroyed
      GraphOf(<< <<"split", <<x>>>>, <<"split", <<x>>>>,
                 <<"inplace", <<OutVar(1, 2)>>>>, <<"inplace", <<OutVar(2, 2)>>>> >>,
              <<O(3), O(4)>>, TRUE),
      \* a node whose candidate becomes mergeable itself
      GraphOf(<< <<"neg", <<x>>>>, <<"neg", <<y>>>>, <<"add", <<O(1), y>>>>,
                 <<"add", <<O(2), y>>>>, <<"add", <<O(2), y>>>> >>,
              <<O(3), O(4), O(5)>>, FALSE) }

NoPlan == [outcome |-> "none", node |-> NoNode, candidate |-> NoNode,
           resident |-> TRUE, ops_equal |-> TRUE, identical |-> TRUE,
           nodes_before |-> 0, nodes_after |-> 0, retry |-> FALSE,
           restored |-> TRUE, fail_before |-> 0, more |-> FALSE, kept |-> TRUE,
           conflict |-> FALSE, replaced_pairs |-> 0, replaced_const |-> 0,
           failed |-> 0, after_failure |-> FALSE, in_group |-> 0, late |-> FALSE]

MergeInit ==
    /\ fgraph \in {MergeFeature_on_attach(g) : g \in MergeGraphs}
    /\ merge_pc = "idle"
    /\ pairs_list = <<>>
    /\ plan_idx = 0
    /\ success = TRUE
    /\ nb_fail = 0
    /\ nb_merged = 0
    /\ nb_constant = 0
    /\ env_steps = 0
    /\ last_plan = NoPlan
    /\ rejected = {}
    /\ runs = 0
    /\ before = Structure(fgraph)
    /\ self = "MergeOptimizer" /\ frame = <<>> /\ trace = <<>>

(***************************************************************************)
(* MergeOptimizer.apply                                                    *)
(***************************************************************************)
\* The input list with every input that is the output of a CheckAndRaise
\* replaced by the first input of that CheckAndRaise (lines 829-844).
AssertRemoved(g, ins) ==
    [i \in DOMAIN ins |->
        IF HasOwner(ins[i]) /\ g.op[Owner(ins[i])] = "CheckAndRaise"
        THEN g.inputs[Owner(ins[i])][1] ELSE ins[i]]

\* inputs_match of MergeOptimizer.apply.
ApplyInputsMatch(g, node, candidate, merge_mode) ==
    \/ merge_mode = "new_node"
    \/ InputsIdentical(AssertRemoved(g, g.inputs[node]),
                       AssertRemoved(g, g.inputs[candidate]))

\* The number of destroying clients among the clients of the first pair.
DestroyingClients(g, old, new) ==
    LET clients == g.clients[old] \o g.clients[new]
    IN Cardinality({k \in DOMAIN clients :
                      /\ clients[k][1] # OUTPUT
                      /\ DestroyMap(g.op[clients[k][1]]) # {}
                      /\ clients[k][2] \in DestroyMap(g.op[clients[k][1]])})

\* What the checks before the replacement decide for a plan: "gone" (an
\* endpoint left the graph), "mismatch" (inputs differ), "destroy" (two
\* destroyers) or "replace".
PlanCheck(g, pairs_) ==
    LET var == pairs_[1][1]
        candidate == pairs_[1][2]
        merge_mode == pairs_[1][3]
    IN IF ~(merge_mode = "new_node" /\ var \in g.variables)
          /\ (var \notin g.variables \/ candidate \notin g.variables)
       THEN "gone"
       ELSE IF HasOwner(var) /\ HasOwner(candidate)
       THEN IF ~ApplyInputsMatch(g, Owner(var), Owner(candidate), merge_mode)
            THEN "mismatch"
            ELSE IF g.destroy_handler /\ DestroyingClients(g, var, candidate) > 1
            THEN "destroy"
            ELSE "replace"
       ELSE "replace"

\* pairs = [pair[:2] for pair in pairs_]
PairsOf(pairs_) == [k \in DOMAIN pairs_ |-> <<pairs_[k][1], pairs_[k][2]>>]

PlanReplace_unchanged(g, pairs) == <<g, TRUE>>

\* The replacement call of a plan: <<graph, ok>>.  replace_all for a plan of
\* constants, replace_all_validate otherwise.  All values have one type here,
\* so the convert_variable swap of lines 878-885 is not taken.
PlanReplace(g, pairs) ==
    IF \A k \in DOMAIN pairs : IsConstant(pairs[k][1])
    THEN <<ReplaceAll(g, pairs), TRUE>>
    ELSE ReplaceAllValidate(g, pairs, FALSE)

\* nb_fail = 0 ... nb_merged = 0; nb_constant = 0
MergeStart ==
    /\ merge_pc = "idle" /\ runs < MaxRuns
    /\ merge_pc' = "loop"
    /\ nb_fail' = 0 /\ nb_merged' = 0 /\ nb_constant' = 0
    /\ last_plan' = NoPlan
    /\ before' = Structure(fgraph)
    /\ UNCHANGED <<fgraph, pairs_list, plan_idx, success, env_steps, rejected, runs,
                   driver_vars>>

\* As MergePop, for a loop that takes the groups from the front (FIFO).
MergePopFirst ==
    /\ merge_pc = "loop"
    /\ fgraph.scheduled # <<>>
    /\ pairs_list' = Head(fgraph.scheduled)
    /\ fgraph' = [fgraph EXCEPT !.scheduled = Tail(@)]
    /\ success' = TRUE
    /\ plan_idx' = 1
    /\ merge_pc' = "plans"
    /\ UNCHANGED <<nb_fail, nb_merged, nb_constant, env_steps, last_plan, rejected,
                   runs, before, driver_vars>>

\* As MergePop, for a loop that reads the last group without removing it.
MergePeek ==
    /\ merge_pc = "loop"
    /\ fgraph.scheduled # <<>>
    /\ pairs_list' = Last(fgraph.scheduled)
    /\ success' = TRUE
    /\ plan_idx' = 1
    /\ merge_pc' = "plans"
    /\ UNCHANGED <<fgraph, nb_fail, nb_merged, nb_constant, env_steps, last_plan,
                   rejected, runs, before, driver_vars>>

\* while sched: pairs_list = sched.pop(); success = True
MergePop ==
    /\ merge_pc = "loop"
    /\ fgraph.scheduled # <<>>
    /\ pairs_list' = Last(fgraph.scheduled)
    /\ fgraph' = [fgraph EXCEPT !.scheduled = Front(@)]
    /\ success' = TRUE
    /\ plan_idx' = 1
    /\ merge_pc' = "plans"
    /\ UNCHANGED <<nb_fail, nb_merged, nb_constant, env_steps, last_plan, rejected,
                   runs, before, driver_vars>>

\* One iteration of `for pairs_ in pairs_list`.
MergePlan ==
    /\ merge_pc = "plans"
    /\ \E pairs_ \in {pairs_list[plan_idx]} :
       \E check \in {PlanCheck(fgraph, pairs_)} :
       \E res \in {IF check = "replace" THEN PlanReplace(fgraph, PairsOf(pairs_))
                   ELSE <<fgraph, TRUE>>} :
       LET pairs == PairsOf(pairs_)
           var == pairs[1][1]
           candidate == pairs[1][2]
           ok == res[2]
           now_success == IF check = "replace" /\ ~ok THEN FALSE ELSE success
           break == check = "replace" /\ now_success
           ends == break \/ plan_idx = Len(pairs_list)
       IN /\ fgraph' = IF ok THEN res[1]
                       ELSE [res[1] EXCEPT !.blacklist =
                                Append(@, <<OwnerOrNone(var), OwnerOrNone(candidate)>>)]
          /\ success' = now_success
          /\ nb_fail' = IF check = "replace" /\ ~ok THEN nb_fail + 1 ELSE nb_fail
          /\ nb_merged' = IF break THEN nb_merged + Len(pairs) ELSE nb_merged
          /\ nb_constant' = IF break /\ IsConstant(var) THEN nb_constant + 1
                            ELSE nb_constant
          /\ merge_pc' = IF ends THEN "loop" ELSE "plans"
          /\ plan_idx' = IF ends THEN 0 ELSE plan_idx + 1
          /\ pairs_list' = IF ends THEN <<>> ELSE pairs_list
          /\ last_plan' =
               [outcome |-> IF check # "replace" THEN check
                            ELSE IF ok THEN "replaced" ELSE "failed",
                node |-> OwnerOrNone(var), candidate |-> OwnerOrNone(candidate),
                resident |-> {var, candidate} \subseteq fgraph.variables,
                ops_equal |-> (HasOwner(var) /\ HasOwner(candidate)) =>
                                 fgraph.op[Owner(var)] = fgraph.op[Owner(candidate)],
                identical |-> (HasOwner(var) /\ HasOwner(candidate)) =>
                                 fgraph.inputs[Owner(var)] = fgraph.inputs[Owner(candidate)],
                nodes_before |-> Cardinality(fgraph.apply_nodes),
                nodes_after |-> Cardinality(res[1].apply_nodes),
                retry |-> check = "replace"
                          /\ <<OwnerOrNone(var), OwnerOrNone(candidate)>>
                                 \in Range(fgraph.blacklist),
                restored |-> Structure(res[1]) = Structure(fgraph),
                fail_before |-> nb_fail,
                more |-> plan_idx < Len(pairs_list),
                kept |-> SubSeq(fgraph'.blacklist, 1, Len(fgraph.blacklist))
                            = fgraph.blacklist,
                conflict |-> /\ check \in {"destroy", "replace"}
                             /\ fgraph.destroy_handler
                             /\ HasOwner(var) /\ HasOwner(candidate)
                             /\ \E k \in DOMAIN pairs :
                                   DestroyingClients(fgraph, pairs[k][1], pairs[k][2]) > 1,
                replaced_pairs |-> last_plan.replaced_pairs
                                   + (IF check = "replace" /\ ok THEN Len(pairs) ELSE 0),
                replaced_const |-> last_plan.replaced_const
                                   + (IF check = "replace" /\ ok /\ IsConstant(var)
                                      THEN 1 ELSE 0),
                failed |-> last_plan.failed + (IF check = "replace" /\ ~ok THEN 1 ELSE 0),
                after_failure |-> check = "replace" /\ ok /\ ~success,
                in_group |-> (IF plan_idx = 1 THEN 0 ELSE last_plan.in_group)
                             + (IF check = "replace" /\ ok THEN 1 ELSE 0),
                late |-> plan_idx > 1 /\ last_plan.in_group > 0 /\ check = "replace"]
          /\ rejected' = IF check = "destroy" \/ (check = "replace" /\ ~ok)
                         THEN rejected \cup {<<OwnerOrNone(var), OwnerOrNone(candidate)>>}
                         ELSE rejected
    /\ UNCHANGED <<env_steps, runs, before, driver_vars>>

\* As MergeReturn, for a loop that gives up with groups left in the LIFO.
MergeReturnEarly ==
    /\ merge_pc = "loop"
    /\ fgraph' = [fgraph EXCEPT !.blacklist = <<>>]
    /\ merge_pc' = "idle"
    /\ runs' = runs + 1
    /\ UNCHANGED <<pairs_list, plan_idx, success, nb_fail, nb_merged, nb_constant,
                   env_steps, last_plan, rejected, before, driver_vars>>

\* The end of apply: the blacklist is cleared and the profile returned.
MergeReturn ==
    /\ merge_pc = "loop"
    /\ fgraph.scheduled = <<>>
    /\ fgraph' = [fgraph EXCEPT !.blacklist = <<>>]
    /\ merge_pc' = "idle"
    /\ runs' = runs + 1
    /\ UNCHANGED <<pairs_list, plan_idx, success, nb_fail, nb_merged, nb_constant,
                   env_steps, last_plan, rejected, before, driver_vars>>

(***************************************************************************)
(* The rewriters around the merger: between merge passes they replace a    *)
(* value by another one, by the output of a new node, or rebind one input  *)
(* of a node (FunctionGraph.replace and change_node_input).  Only changes  *)
(* the graph accepts (valid, acyclic) are made.                            *)
(***************************************************************************)
\* The next Apply object to build.
FreshNode(g) == CHOOSE n \in Nodes : g.op[n] = "none" /\ \A m \in Nodes : m < n => g.op[m] # "none"
HasFresh(g) == \E n \in Nodes : g.op[n] = "none"

\* Apply(op, inputs) as a new object.
MakeNode(g, o, ins) ==
    [g EXCEPT !.op[FreshNode(g)] = o, !.inputs[FreshNode(g)] = ins]

Accepted(g) == Validate(g) /\ ~HasCycle(g)

EnvDone(g) ==
    /\ Accepted(g)
    /\ fgraph' = [g EXCEPT !.history = <<>>]
    /\ env_steps' = env_steps + 1
    /\ runs' = 0
    /\ UNCHANGED <<merge_pc, pairs_list, plan_idx, success, nb_fail, nb_merged,
                   nb_constant, last_plan, rejected, before, driver_vars>>

\* replace(v, w) for two values of the graph.
EnvReplace ==
    /\ merge_pc = "idle" /\ env_steps < MaxEnvSteps
    /\ \E v \in fgraph.variables \cap OutVars : \E w \in fgraph.variables \ {v} :
          /\ Owner(v) \notin AncestorsOfVar(fgraph, w)
          /\ EnvDone(Replace(fgraph, v, w))

\* replace(v, m.op(*m.inputs)): a new node equal to the resident node m.
EnvReplaceByClone ==
    /\ merge_pc = "idle" /\ env_steps < MaxEnvSteps
    /\ HasFresh(fgraph)
    /\ \E v \in fgraph.variables \cap OutVars : \E m \in fgraph.apply_nodes :
          LET g1 == MakeNode(fgraph, fgraph.op[m], fgraph.inputs[m])
          IN EnvDone(Replace(g1, v, O(FreshNode(fgraph))))

\* change_node_input(node, i, w) for a value w of the graph.
EnvChangeInput ==
    /\ merge_pc = "idle" /\ env_steps < MaxEnvSteps
    /\ \E node \in fgraph.apply_nodes : \E i \in DOMAIN fgraph.inputs[node] :
         \E w \in fgraph.variables \ {fgraph.inputs[node][i]} :
          /\ node \notin AncestorsOfVar(fgraph, w)
          /\ EnvDone(ChangeNodeInput(fgraph, node, i, w))

MergeNext ==
    \/ MergeStart
    \/ MergePop
    \/ MergePlan
    \/ MergeReturn
    \/ EnvReplace
    \/ EnvReplaceByClone
    \/ EnvChangeInput

SpecMerge == MergeInit /\ [][MergeNext]_merge_vars

\* replace_all_validate raises an exception other than InconsistencyError (a
\* validator of the graph other than the DestroyHandler raised it): the
\* changes are reverted and, not being caught at line 895, the exception
\* leaves apply.
MergeRaise ==
    /\ merge_pc = "plans"
    /\ \E pairs_ \in {pairs_list[plan_idx]} :
          /\ PlanCheck(fgraph, pairs_) = "replace"
          /\ ~IsConstant(pairs_[1][1])
          /\ fgraph' = ReplaceAllValidate(fgraph, PairsOf(pairs_), TRUE)[1]
          /\ last_plan' = [NoPlan EXCEPT !.outcome = "raised",
                                         !.node = OwnerOrNone(pairs_[1][1]),
                                         !.candidate = OwnerOrNone(pairs_[1][2])]
    /\ merge_pc' = "raised"
    /\ UNCHANGED <<pairs_list, plan_idx, success, nb_fail, nb_merged, nb_constant,
                   env_steps, rejected, runs, before, driver_vars>>

\* The merge pass on a graph with validators that can raise.
SpecMergeRaise == MergeInit /\ [][MergeNext \/ MergeRaise]_merge_vars

\* Distinct resident nodes with equal operator and identical inputs.
IdenticalPairs(g) ==
    {p \in g.apply_nodes \X g.apply_nodes :
        /\ p[1] # p[2]
        /\ g.op[p[1]] = g.op[p[2]]
        /\ g.inputs[p[1]] = g.inputs[p[2]]}

\* A merge pass has just returned.
Returned == merge_pc = "idle" /\ runs > 0

\* The merge pass keeps running: its loop head and its return are weakly fair.
\* The loop body is weakly fair as well: <<MergePlan>>_merge_vars is enabled
\* exactly when merge_pc = "plans", and its weak fairness is written with
\* that predicate.
SpecMergeLive ==
    /\ SpecMerge
    /\ WF_merge_vars(MergePop) /\ WF_merge_vars(MergeReturn)
    /\ ([]<>(merge_pc # "plans") \/ []<><<MergePlan>>_merge_vars)

\* C1: after MergeOptimizer.apply returns, every pair of distinct resident
\* nodes with equal operator and identical inputs is a pair whose merge was
\* rejected by a destroy conflict.
C1_CSECorrectness ==
    Returned => \A p \in IdenticalPairs(fgraph) :
                   <<p[1], p[2]>> \in rejected \/ <<p[2], p[1]>> \in rejected

\* C2: a replacement made by MergeOptimizer.apply finds, at that moment, both
\* values resident, the operators equal and the inputs pointwise identical;
\* CheckAndRaise is an operator like any other.
C2_ReplaceOnlyIdentical ==
    last_plan.outcome = "replaced" =>
        last_plan.resident /\ last_plan.ops_equal /\ last_plan.identical

\* C3: a second MergeOptimizer.apply right after a first one replaces nothing
\* (nb_merged, nb_constant and nb_fail are 0) and leaves the nodes and the
\* structure of the graph as they were.
C3_Idempotent ==
    (merge_pc = "idle" /\ runs >= 2) =>
        /\ nb_merged = 0 /\ nb_constant = 0 /\ nb_fail = 0
        /\ Structure(fgraph) = before

\* The first pass merged two groups, the second one has returned.
C3_Witness ==
    /\ merge_pc = "idle" /\ runs = 2 /\ env_steps = 0
    /\ Cardinality(fgraph.apply_nodes) = 2
    /\ \E n \in fgraph.apply_nodes : fgraph.op[n] = "neg"

\* C4: MergeOptimizer.apply terminates: once started, the scheduled LIFO
\* becomes empty and apply returns.
C4_Terminates == (merge_pc # "idle") ~> (merge_pc = "idle" /\ fgraph.scheduled = <<>>)

\* A pass has returned after a rejected replacement was reverted.
C4_Witness ==
    /\ Returned /\ nb_fail > 0 /\ rejected # {}
    /\ fgraph.scheduled = <<>>

(***************************************************************************)
(* Local rewriters and NavigatorOptimizer.process_node.                    *)
(*                                                                         *)
(* A local rewriter is a record [on, to, fail, exc]: on a node of operator *)
(* `on` its transform proposes, as the replacement of the node's output,   *)
(* the output of a new node of operator `to` over the same inputs, or      *)
(* (to = "inner") the input of the node that computes its first input.     *)
(* fail = "transform" makes transform raise exc; fail = "validate" makes   *)
(* the validation of the replacement raise exc.                            *)
(*                                                                         *)
(*   self    the driver object: its rewriters and options, together with   *)
(*           config.on_opt_error                                           *)
(*   frame   the locals of the running apply                               *)
(*   trace   what the run did so far (history variable)                    *)
(***************************************************************************)
LocalOpt(on, to, fail, exc) ==
    [on |-> on, to |-> to, fail |-> fail, exc |-> exc,
     in_pattern |-> <<>>, out_pattern |-> <<>>, allow_multiple_clients |-> TRUE]

\* OpRemove(op); tracks() is [self.op].
OpRemove(op) == LocalOpt(op, "remove", "none", "none")

(***************************************************************************)
(* PatternSub.  A pattern is <<kind, name, args>>:                         *)
(*   <<"op", o, subpatterns>>   (o, sub1, sub2, ...)                       *)
(*   <<"var", s, <<>>>>         the string s                               *)
(*   <<"input_var", s, <<>>>>   dict(pattern=s, constraint=c), c holding   *)
(*                              of the graph inputs only                   *)
(*   <<"const", sig, <<>>>>     a Constant of merge signature sig          *)
(* Output patterns are a string or an operator over strings.  unify and    *)
(* reify stand for the functions of the unification package: a string      *)
(* used twice must find the same value in both places.  Every value has    *)
(* type "float" but the output of "cast", which has type "int".            *)
(***************************************************************************)
\* [out.type for out in Apply(o, ...).outputs]
OutTypes(o) == IF o = "cast" THEN <<"int">> ELSE [j \in 1..NOut(o) |-> "float"]

\* v.type
TypeOf(g, v) == IF HasOwner(v) THEN OutTypes(g.op[Owner(v)])[v[3]] ELSE "float"

\* PatternSub(in_pattern, out_pattern, allow_multiple_clients); tracks() is
\* [self.op], the operator at the root of in_pattern.
PatternSub(in_pattern, out_pattern, allow_multiple_clients) ==
    [on |-> in_pattern[2], to |-> "pattern", fail |-> "none", exc |-> "none",
     in_pattern |-> in_pattern, out_pattern |-> out_pattern,
     allow_multiple_clients |-> allow_multiple_clients]

\* vars_between(fgraph.inputs, node.outputs): the outputs of the node and the
\* inputs of every node it depends on.
vars_between(g, node) ==
    OutputsOf(g, node)
        \cup UNION {Range(g.inputs[n]) : n \in NodeClosure(g, {node}, {node})}

\* The substitution with the string name bound to the value v, or the failed
\* substitution when name is bound to another value.
Bind(s, name, v) ==
    IF s.map[name] = <<>> THEN [s EXCEPT !.map[name] = v]
    ELSE IF s.map[name] = v THEN s
    ELSE [s EXCEPT !.ok = FALSE]

RECURSIVE unify(_, _, _, _)
\* unify(pattern, v) under the substitution s, and, for kind "all", of the
\* patterns pat[3] with the values vs one by one.
unify(g, pat, vs, s) ==
    IF ~s.ok THEN s
    ELSE CASE pat[1] = "all" ->
                IF pat[3] = <<>> THEN s
                ELSE unify(g, <<"all", "", Tail(pat[3])>>, Tail(vs),
                           unify(g, Head(pat[3]), <<Head(vs)>>, s))
           [] pat[1] = "var" -> Bind(s, pat[2], vs[1])
           [] pat[1] = "input_var" ->
                IF vs[1] \in InputVars THEN Bind(s, pat[2], vs[1])
                ELSE [s EXCEPT !.ok = FALSE]
           [] pat[1] = "const" ->
                IF IsConstant(vs[1]) /\ MergeSignature(vs[1]) = pat[2] THEN s
                ELSE [s EXCEPT !.ok = FALSE]
           [] OTHER ->
                IF /\ HasOwner(vs[1]) /\ vs[1][3] = 1
                   /\ g.op[Owner(vs[1])] = pat[2]
                   /\ Len(g.inputs[Owner(vs[1])]) = Len(pat[3])
                THEN unify(g, <<"all", "", pat[3]>>, g.inputs[Owner(vs[1])], s)
                ELSE [s EXCEPT !.ok = FALSE]

\* reify(self.out_pattern, s): <<"var", <<v>>>> for a value of the graph,
\* <<o, inputs>> for the output of the new Apply(o, inputs).
reify(out_pattern, s) ==
    IF out_pattern[1] = "var" THEN <<"var", <<s.map[out_pattern[2]]>>>>
    ELSE <<out_pattern[2],
           [i \in DOMAIN out_pattern[3] |-> s.map[out_pattern[3][i][2]]]>>

\* `return False`
False == <<"false", <<>>>>

\* The type tests of transform on ret (lines 1763-1774).  No pattern here has
\* a root operator with several outputs, so the assert of line 1770 holds.
TypeChecked(g, node, ret) ==
    IF ret[1] = "var"
    THEN IF TypeOf(g, ret[2][1]) # TypeOf(g, OutVar(node, 1)) THEN False ELSE ret
    ELSE IF OutTypes(ret[1]) # OutTypes(g.op[node]) THEN False ELSE ret

\* if s is False: return False; ret = reify(self.out_pattern, s); ...
Reified(g, slf, node, s) ==
    IF ~s.ok THEN False ELSE TypeChecked(g, node, reify(slf.out_pattern, s))

\* transform from the test of the operator on (lines 1747-1774).
Match(g, slf, node) ==
    IF g.op[node] # slf.in_pattern[2] THEN False
    ELSE Reified(g, slf, node,
                 unify(g, slf.in_pattern, <<OutVar(node, 1)>>,
                       [ok |-> TRUE, map |-> [n \in {"x", "y"} |-> <<>>]]))

\* PatternSub.transform(fgraph, node) with self.get_nodes None.
PatternSub_transform(g, slf, node) ==
    IF /\ ~slf.allow_multiple_clients
       /\ \E v \in vars_between(g, node) \ InputVars : Len(g.clients[v]) > 1
    THEN False
    ELSE Match(g, slf, node)

\* The graphs and patterns transform is applied to.
PatternGraphs ==
    {GraphOf(<< <<"add", <<x, y>>>> >>, <<O(1)>>, FALSE),
     GraphOf(<< <<"neg", <<x>>>>, <<"neg", <<O(1)>>>> >>, <<O(2)>>, FALSE),
     \* the inner value has a second client
     GraphOf(<< <<"neg", <<x>>>>, <<"neg", <<O(1)>>>> >>, <<O(2), O(1)>>, FALSE),
     \* a value above the two neg has a second client
     GraphOf(<< <<"mul", <<x, y>>>>, <<"add", <<O(1), y>>>>, <<"neg", <<O(2)>>>>,
                <<"neg", <<O(3)>>>> >>, <<O(4), O(1)>>, FALSE),
     GraphOf(<< <<"cast", <<x>>>>, <<"neg", <<O(1)>>>> >>, <<O(2)>>, FALSE),
     GraphOf(<< <<"add", <<x, ConstVar(1)>>>>, <<"sub", <<O(1), O(1)>>>> >>,
             <<O(2)>>, FALSE)}

PatternSubs ==
    {PatternSub(p[1], p[2], allow) :
        p \in {<< <<"op", "add", << <<"var", "x", <<>>>>, <<"var", "y", <<>>>> >> >>,
                  <<"op", "add", << <<"var", "y", <<>>>>, <<"var", "x", <<>>>> >> >> >>,
               << <<"op", "neg", << <<"op", "neg", << <<"var", "x", <<>>>> >> >> >> >>,
                  <<"var", "x", <<>>>> >>,
               << <<"op", "neg", << <<"var", "x", <<>>>> >> >>, <<"var", "x", <<>>>> >>,
               << <<"op", "neg", << <<"input_var", "x", <<>>>> >> >>,
                  <<"op", "split", << <<"var", "x", <<>>>> >> >> >>,
               << <<"op", "add", << <<"var", "x", <<>>>>, <<"const", "one", <<>>>> >> >>,
                  <<"var", "x", <<>>>> >>,
               << <<"op", "sub", << <<"var", "x", <<>>>>, <<"var", "x", <<>>>> >> >>,
                  <<"op", "neg", << <<"var", "x", <<>>>> >> >> >>},
        allow \in BOOLEAN}

FailureCallbacks == {"None", "warn", "warn_inplace", "warn_ignore"}
OnOptError == {"raise", "warn", "ignore", "pdb"}

\* As FailureCallbackRaises, for callbacks that re-raise under
\* on_opt_error = "raise" only.
FailureCallbackRaisesOnConfig(callback, exc, on_opt_error) ==
    callback # "warn_ignore" /\ on_opt_error = "raise"

\* NavigatorOptimizer.warn, warn_inplace and warn_ignore: TRUE when the
\* callback re-raises exc, FALSE when it returns.
FailureCallbackRaises(callback, exc, on_opt_error) ==
    CASE callback = "warn_ignore" -> FALSE
      [] callback = "warn_inplace" /\ exc = "InconsistencyError" -> FALSE
      [] OTHER -> /\ on_opt_error # "pdb"
                  /\ (exc = "AssertionError" \/ on_opt_error = "raise")

Replacement_unapplied(g, node, ret) ==
    [kind |-> "false", g |-> g, new |-> OutVar(node, 1)]

\* The value transform of a PatternSub returns, with the Apply object of ret
\* when ret is the output of a new one.
Replacement(g, node, ret) ==
    IF ret = False \/ (ret[1] # "var" /\ ~HasFresh(g))
    THEN [kind |-> "false", g |-> g, new |-> OutVar(node, 1)]
    ELSE IF ret[1] = "var"
    THEN [kind |-> "replace", g |-> g, new |-> ret[2][1]]
    ELSE [kind |-> "replace", g |-> MakeNode(g, ret[1], ret[2]),
          new |-> OutVar(FreshNode(g), 1)]

\* lopt.transform(fgraph, node): "false", "raise", or "replace" with the
\* graph holding the new Apply object and the replacement value.
Transform(lopt, g, node) ==
    IF g.op[node] # lopt.on
    THEN [kind |-> "false", g |-> g, new |-> OutVar(node, 1)]
    ELSE IF lopt.fail = "transform"
    THEN [kind |-> "raise", g |-> g, new |-> OutVar(node, 1)]
    ELSE IF lopt.to = "pattern"
    THEN Replacement(g, node, PatternSub_transform(g, lopt, node))
    ELSE IF lopt.to = "remove"
    THEN [kind |-> "list", g |-> g, new |-> OutVar(node, 1), news |-> g.inputs[node]]
    ELSE IF lopt.to = "first"
    THEN IF g.inputs[node] = <<>>
         THEN [kind |-> "false", g |-> g, new |-> OutVar(node, 1)]
         ELSE [kind |-> "list", g |-> g, new |-> OutVar(node, 1),
               news |-> <<g.inputs[node][1]>> \o Tail(OutputSeq(g, node))]
    ELSE IF lopt.to = "inner"
    THEN IF g.inputs[node] # <<>> /\ HasOwner(g.inputs[node][1])
            /\ g.inputs[Owner(g.inputs[node][1])] # <<>>
         THEN [kind |-> "replace", g |-> g,
               new |-> g.inputs[Owner(g.inputs[node][1])][1]]
         ELSE [kind |-> "false", g |-> g, new |-> OutVar(node, 1)]
    ELSE IF HasFresh(g)
    THEN [kind |-> "replace", g |-> MakeNode(g, lopt.to, g.inputs[node]),
          new |-> OutVar(FreshNode(g), 1)]
    ELSE [kind |-> "false", g |-> g, new |-> OutVar(node, 1)]

\* The result of process_node: the graph, the returned value, and the
\* exception that leaves process_node ("none" when it returns).
Outcome(g, ret, raised) == [fgraph |-> g, ret |-> ret, raised |-> raised]

\* As Failure, for a navigator that returns False on every exception.
Failure_absorbed(g, slf, exc) == Outcome(g, FALSE, "none")

\* except Exception as e: the failure callback is called and False returned,
\* unless there is no callback or the callback raises.
Failure(g, slf, exc) ==
    IF slf.failure_callback # "None"
       /\ ~FailureCallbackRaises(slf.failure_callback, exc, slf.on_opt_error)
    THEN Outcome(g, FALSE, "none")
    ELSE Outcome(g, FALSE, exc)

\* fgraph.replace_all_validate_remove(repl_pairs) and the except clause
\* around it.  veto is the exception validation raises, if any.
ReplaceOrFail(res, slf, veto) ==
    IF res[2] THEN Outcome(res[1], TRUE, "none") ELSE Failure(res[1], slf, veto)

repl_pairs_none(old_vars, replacements) == <<>>

\* repl_pairs: the pairs (r, rnew) of old_vars and replacements with rnew
\* is not r.
repl_pairs(old_vars, replacements) ==
    SelectSeq([i \in DOMAIN old_vars |-> <<old_vars[i], replacements[i]>>],
              LAMBDA pair : pair[1] # pair[2])

\* process_node for a transform that returned the list replacements:
\* ValueError unless there is one replacement for each output of the node.
ProcessList(g, slf, node, lopt, replacements) ==
    IF Len(OutputSeq(g, node)) # Len(replacements)
    THEN Outcome(g, FALSE, "ValueError")
    ELSE IF repl_pairs(OutputSeq(g, node), replacements) = <<>>
    THEN Outcome(g, FALSE, "none")
    ELSE ReplaceOrFail(
             ReplaceAllValidate(g, repl_pairs(OutputSeq(g, node), replacements),
                                lopt.fail = "validate"),
             slf, lopt.exc)

\* NavigatorOptimizer.process_node after transform returned.
ProcessReplacements(t, slf, node, lopt) ==
    CASE t.kind = "raise" -> Failure(t.g, slf, lopt.exc)
      [] t.kind = "false" -> Outcome(t.g, FALSE, "none")
      [] t.kind = "list" -> ProcessList(t.g, slf, node, lopt, t.news)
      [] OTHER ->
           IF t.new = OutVar(node, 1) THEN Outcome(t.g, FALSE, "none")
           ELSE ReplaceOrFail(
                    ReplaceAllValidate(t.g, << <<OutVar(node, 1), t.new>> >>,
                                       lopt.fail = "validate"),
                    slf, lopt.exc)

\* NavigatorOptimizer.process_node(fgraph, node, lopt)
NavigatorOptimizer_process_node(g, slf, node, lopt) ==
    ProcessReplacements(Transform(lopt, g, node), slf, node, lopt)

\* As attach_updater, for a driver that attaches the Updater whatever
\* ignore_newtrees is.
attach_updater_always(g, slf, chin) ==
    [g EXCEPT !.updater = TRUE, !.importer = TRUE, !.chin = chin]

\* NavigatorOptimizer.attach_updater(fgraph, importer, None, chin)
attach_updater(g, slf, chin) ==
    IF slf.ignore_newtrees THEN g
    ELSE [g EXCEPT !.updater = TRUE, !.importer = TRUE, !.chin = chin]

\* NavigatorOptimizer.detach_updater
detach_updater(g) ==
    [g EXCEPT !.updater = FALSE, !.importer = FALSE, !.chin = FALSE]

(***************************************************************************)
(* TopoOptimizer.apply                                                     *)
(***************************************************************************)
Exceptions == {"AssertionError", "InconsistencyError", "Exception"}

\* PatternSub((add, 'x', 'y'), (add, 'y', 'x'))
Swap ==
    PatternSub(<<"op", "add", << <<"var", "x", <<>>>>, <<"var", "y", <<>>>> >> >>,
               <<"op", "add", << <<"var", "y", <<>>>>, <<"var", "x", <<>>>> >> >>, FALSE)

\* The local rewriters the drivers are run with.
LocalOptimizers ==
    {LocalOpt("a", "b", "none", "none"), LocalOpt("neg", "inner", "none", "none")}
    \cup {LocalOpt("neg", "inner", "validate", e) : e \in Exceptions}
    \cup {LocalOpt("a", "b", "validate", e) : e \in Exceptions}
    \cup {LocalOpt("a", "b", "transform", e) : e \in {"AssertionError", "Exception"}}
    \cup {Swap}
    \cup {OpRemove(o) : o \in {"identity", "a", "split"}}

\* The graphs the drivers are run on.
DriverGraphs ==
    {GraphOf(<< <<"neg", <<x>>>>, <<"neg", <<O(1)>>>>, <<"a", <<O(2), y>>>> >>,
             <<O(3)>>, FALSE),
     GraphOf(<< <<"a", <<x, y>>>>, <<"neg", <<O(1)>>>>, <<"neg", <<O(2)>>>> >>,
             <<O(3), O(1)>>, FALSE),
     GraphOf(<< <<"add", <<x, y>>>> >>, <<O(1)>>, FALSE),
     GraphOf(<< <<"identity", <<x>>>>, <<"identity", <<y>>>>, <<"f", <<O(1), O(2)>>>> >>,
             <<O(3)>>, FALSE),
     GraphOf(<< <<"split", <<x, y>>>>, <<"add", <<OutVar(1, 1), OutVar(1, 2)>>>> >>,
             <<O(2)>>, FALSE)}

\* The class of self, which selects the apply that runs.
IsTopo == "order" \in DOMAIN self
IsEquilibrium == "max_use_ratio" \in DOMAIN self

TopoOptimizers ==
    [local_opt : LocalOptimizers, order : {"in_to_out", "out_to_in"},
     ignore_newtrees : BOOLEAN, failure_callback : FailureCallbacks,
     on_opt_error : OnOptError]

TopoInit ==
    /\ fgraph \in DriverGraphs
    /\ self \in TopoOptimizers
    /\ frame = [pc |-> "start", nb |-> 0, raised |-> "none"]
    /\ trace = [initial |-> {}, visits |-> [n \in Nodes |-> 0], asserted |-> FALSE]
    /\ merge_pc = "idle" /\ pairs_list = <<>> /\ plan_idx = 0 /\ success = TRUE
    /\ nb_fail = 0 /\ nb_merged = 0 /\ nb_constant = 0 /\ env_steps = 0
    /\ last_plan = NoPlan /\ rejected = {} /\ runs = 0 /\ before = <<>>

\* The transform, or the validation of its replacement, raises AssertionError.
Asserts(t, lopt) ==
    /\ lopt.exc = "AssertionError"
    /\ t.kind = "raise" \/ (t.kind = "replace" /\ lopt.fail = "validate")

\* q = deque(io_toposort(fgraph.inputs, start_from)); u = self.attach_updater(...)
TopoStart ==
    /\ IsTopo /\ frame.pc = "start"
    /\ fgraph' = attach_updater([fgraph EXCEPT !.q = IoToposort(fgraph, fgraph.outputs),
                                               !.imported = {}, !.pruned = {}],
                                self, FALSE)
    /\ frame' = [frame EXCEPT !.pc = "loop"]
    /\ trace' = [trace EXCEPT !.initial = Range(IoToposort(fgraph, fgraph.outputs))]
    /\ UNCHANGED <<self, merge_only>>

\* The queue after the pop, and the node popped.
PopLeft(g) == [g EXCEPT !.q = Tail(@)]
PopRight(g) == [g EXCEPT !.q = Front(@)]

\* One iteration of `while q`, after the pop of node: a node that left the
\* graph is skipped, else it becomes current_node and is processed.
TopoProcess(g, node) ==
    /\ \E res \in {IF node \in g.apply_nodes
                   THEN NavigatorOptimizer_process_node(
                            [g EXCEPT !.current_node = node], self, node, self.local_opt)
                   ELSE Outcome(g, FALSE, "none")} :
          /\ fgraph' = IF res.raised # "none" THEN detach_updater(res.fgraph)
                       ELSE res.fgraph
          /\ frame' = [frame EXCEPT !.nb = IF res.ret THEN @ + 1 ELSE @,
                                    !.raised = res.raised,
                                    !.pc = IF res.raised # "none" THEN "raised" ELSE @]
          /\ trace' = [trace EXCEPT
                          !.visits[node] = IF node \in g.apply_nodes THEN @ + 1 ELSE @,
                          !.asserted = @ \/ (node \in g.apply_nodes
                                             /\ Asserts(Transform(self.local_opt, g, node),
                                                        self.local_opt))]
    /\ UNCHANGED <<self, merge_only>>

\* node = q.pop() or q.popleft(), and the body of the loop.
TopoVisit ==
    /\ frame.pc = "loop"
    /\ fgraph.q # <<>>
    /\ IF self.order = "out_to_in"
       THEN TopoProcess(PopRight(fgraph), Last(fgraph.q))
       ELSE TopoProcess(PopLeft(fgraph), Head(fgraph.q))

\* finally: self.detach_updater(fgraph, u); return the profile.
TopoReturn ==
    /\ frame.pc = "loop"
    /\ fgraph.q = <<>>
    /\ fgraph' = detach_updater(fgraph)
    /\ frame' = [frame EXCEPT !.pc = "done"]
    /\ UNCHANGED <<self, trace, merge_only>>

TopoNext == TopoStart \/ TopoVisit \/ TopoReturn

SpecTopo == TopoInit /\ [][TopoNext]_<<fgraph, driver_vars, merge_only>>

(***************************************************************************)
(* EquilibriumOptimizer.apply                                              *)
(*                                                                         *)
(* The global, final and cleanup rewriters are whole-graph rewriters that  *)
(* apply one local rewrite at the first node it matches and absorb its     *)
(* failures.  frame.count is global_process_count, keyed by the list and   *)
(* the position of the rewriter.  max_use_ratio is <<numerator,            *)
(* denominator>>.  trace records, for the current iteration of the driver  *)
(* loop, the graph and the counts at its start and whether a callback of   *)
(* the graph fired since (touched), the number of iterations started, and  *)
(* whether one started while a count exceeded max_use (overrun).           *)
(***************************************************************************)
\* gopt.apply(fgraph) of such a whole-graph rewriter.
GlobalApply(gopt, g) ==
    LET order == IoToposort(g, g.outputs)
        hits == {k \in DOMAIN order : g.op[order[k]] = gopt.on}
    IN IF hits = {} THEN g
       ELSE NavigatorOptimizer_process_node(
                g, [failure_callback |-> "warn_ignore", on_opt_error |-> "ignore"],
                order[CHOOSE k \in hits : \A m \in hits : k <= m], gopt).fgraph

\* count > max_use, with max_use = max_nb_nodes * max_use_ratio
ExceedsMaxUse(count, max_nb_nodes, ratio) == count * ratio[2] > max_nb_nodes * ratio[1]

\* The driver state threaded through one rewriter application: the graph,
\* the locals, and whether a callback of the graph fired (history).
Run(g, fr, touched) == [fgraph |-> g, frame |-> fr, touched |-> touched]

\* if change_tracker.changed: the counts, changed and, where the code tests
\* it (check), max_use_abort.
CountChange(g, fr, touched, list, k, check) ==
    IF ~g.changed THEN Run(g, fr, touched)
    ELSE Run(g,
             [fr EXCEPT !.count[list][k] = @ + 1,
                        !.changed = TRUE,
                        !.max_use_abort =
                            @ \/ (check /\ ExceedsMaxUse(fr.count[list][k] + 1,
                                                         fr.max_nb_nodes,
                                                         self.max_use_ratio))],
             TRUE)

\* change_tracker.reset(); opt.apply(fgraph); if change_tracker.changed: ...
ApplyCounted(run, list, k, check) ==
    CountChange(GlobalApply(self[list][k], [run.fgraph EXCEPT !.changed = FALSE]),
                run.frame, run.touched, list, k, check)

RECURSIVE CleanupFrom(_, _)
\* The loop of apply_cleanup from the k-th cleanup rewriter on.
CleanupFrom(run, k) ==
    IF k > Len(self.cleanup_optimizers) THEN run
    ELSE CleanupFrom(ApplyCounted(run, "cleanup_optimizers", k, FALSE), k + 1)

apply_cleanup_skipped(run) == run

\* changed |= apply_cleanup(iter_cleanup_sub_profs)
apply_cleanup(run) == CleanupFrom(run, 1)

get_trackers_none(slf, o) == <<>>

\* self.local_tracker.get_trackers(node.op): the positions, in the order
\* added, of the local rewriters that track the operator.
get_trackers(slf, o) ==
    SelectSeq2([k \in DOMAIN slf.local_optimizers |-> k],
               {k \in DOMAIN slf.local_optimizers : slf.local_optimizers[k].on = o})

\* The rewriter lists the driver is built with: global, local, final, cleanup.
AB == LocalOpt("a", "b", "none", "none")
BA == LocalOpt("b", "a", "none", "none")
NegNeg == LocalOpt("neg", "inner", "none", "none")
Vetoed(e) == LocalOpt("a", "b", "validate", e)
\* PatternSub((add, 'x', Const(0)), 'x') and PatternSub((mul, 'x', Const(1)), 'x'),
\* the two constants being those of signature "one" and "two".
AddZero ==
    PatternSub(<<"op", "add", << <<"var", "x", <<>>>>, <<"const", "one", <<>>>> >> >>,
               <<"var", "x", <<>>>>, FALSE)
MulOne ==
    PatternSub(<<"op", "mul", << <<"var", "x", <<>>>>, <<"const", "two", <<>>>> >> >>,
               <<"var", "x", <<>>>>, FALSE)
\* A rewriter that replaces the first output of a split by its first input
\* and returns the other outputs as they are.
First == LocalOpt("split", "first", "none", "none")
RewriterLists ==
    {<< <<>>, <<AB, BA>>, <<>>, <<>> >>,
     << <<AB>>, <<NegNeg>>, <<BA>>, <<>> >>,
     << <<>>, <<NegNeg>>, <<>>, <<AB, BA>> >>,
     << <<NegNeg>>, <<Vetoed("InconsistencyError")>>, <<>>, <<>> >>,
     << <<>>, <<>>, <<Vetoed("InconsistencyError")>>, <<NegNeg>> >>,
     << <<>>, <<Vetoed("AssertionError")>>, <<>>, <<>> >>,
     << <<>>, <<LocalOpt("neg", "inner", "transform", "Exception")>>, <<>>, <<>> >>,
     << <<>>, <<Swap>>, <<>>, <<>> >>,
     << <<>>, <<AddZero, MulOne>>, <<>>, <<>> >>,
     << <<>>, <<Vetoed("InconsistencyError"), AB>>, <<>>, <<NegNeg>> >>,
     << <<>>, <<First, OpRemove("split")>>, <<>>, <<>> >>}

MaxUseRatios == {<<1, 3>>, <<1, 2>>, <<2, 1>>}

EquilibriumOptimizers ==
    {[global_optimizers |-> l[1], local_optimizers |-> l[2],
      final_optimizers |-> l[3], cleanup_optimizers |-> l[4],
      ignore_newtrees |-> ig, tracks_on_change_inputs |-> tr,
      max_use_ratio |-> ratio, failure_callback |-> cb, on_opt_error |-> cfg] :
        l \in RewriterLists, ig \in BOOLEAN, tr \in BOOLEAN, ratio \in MaxUseRatios,
        cb \in FailureCallbacks, cfg \in OnOptError}

EqGraphs ==
    DriverGraphs
        \cup {GraphOf(<< <<"a", <<x, y>>>> >>, <<O(1)>>, FALSE),
              GraphOf(<< <<"add", <<x, ConstVar(1)>>>>, <<"mul", <<O(1), ConstVar(4)>>>> >>,
                      <<O(2)>>, FALSE)}

EqInit ==
    /\ fgraph \in EqGraphs
    /\ self \in EquilibriumOptimizers
    /\ frame = [pc |-> "start", changed |-> TRUE, max_use_abort |-> FALSE,
                count |-> <<>>, max_nb_nodes |-> 0, i |-> 0, lopts |-> <<>>,
                raised |-> "none"]
    /\ trace = [iter_start |-> <<>>, iter_count |-> <<>>, touched |-> FALSE,
                iterations |-> 0, overrun |-> FALSE]
    /\ merge_pc = "idle" /\ pairs_list = <<>> /\ plan_idx = 0 /\ success = TRUE
    /\ nb_fail = 0 /\ nb_merged = 0 /\ nb_constant = 0 /\ env_steps = 0
    /\ last_plan = NoPlan /\ rejected = {} /\ runs = 0 /\ before = <<>>

EqLists == {"global_optimizers", "local_optimizers", "final_optimizers",
            "cleanup_optimizers"}

\* Some rewriter's count exceeds max_use.
Exceeded ==
    \E list \in EqLists : \E k \in DOMAIN frame.count[list] :
        ExceedsMaxUse(frame.count[list][k], frame.max_nb_nodes, self.max_use_ratio)

\* change_tracker = ChangeTracker(); fgraph.attach_feature(change_tracker);
\* changed = True; max_use_abort = False; the counts are 0.
EqStart ==
    /\ IsEquilibrium /\ frame.pc = "start"
    /\ fgraph' = [fgraph EXCEPT !.change_tracker = TRUE, !.changed = FALSE,
                                !.nb_imported = 0]
    /\ frame' = [frame EXCEPT !.pc = "while",
                    !.count = [list \in EqLists |-> [k \in DOMAIN self[list] |-> 0]],
                    !.max_nb_nodes = Cardinality(fgraph.apply_nodes)]
    /\ UNCHANGED <<self, trace, merge_only>>

\* while changed and not max_use_abort: changed = False
EqIterate ==
    /\ frame.pc = "while"
    /\ frame.changed /\ ~frame.max_use_abort
    /\ frame' = [frame EXCEPT !.pc = "global", !.changed = FALSE, !.i = 1]
    /\ trace' = [trace EXCEPT !.iter_start = Structure(fgraph),
                              !.iter_count = frame.count, !.touched = FALSE,
                              !.iterations = @ + 1, !.overrun = @ \/ Exceeded]
    /\ UNCHANGED <<fgraph, self, merge_only>>

\* The step of a whole-graph phase: the i-th rewriter of the list is applied.
EqApply(list) ==
    /\ frame.i <= Len(self[list])
    /\ \E run \in {ApplyCounted(Run(fgraph, frame, trace.touched), list, frame.i, TRUE)} :
          /\ fgraph' = run.fgraph
          /\ frame' = [run.frame EXCEPT !.i = @ + 1]
          /\ trace' = [trace EXCEPT !.touched = run.touched]
    /\ UNCHANGED <<self, merge_only>>

\* for gopt in self.global_optimizers: ...
EqGlobal == frame.pc = "global" /\ EqApply("global_optimizers")

\* After the global phase: apply_cleanup, q = deque(io_toposort(...)),
\* max_nb_nodes and max_use, attach_updater.
EqLocalStart ==
    /\ frame.pc = "global"
    /\ frame.i > Len(self.global_optimizers)
    /\ \E run \in {apply_cleanup(Run(fgraph, frame, trace.touched))} :
       \E q \in {IoToposort(run.fgraph, run.fgraph.outputs)} :
          /\ fgraph' = attach_updater([run.fgraph EXCEPT !.q = q], self,
                                      self.tracks_on_change_inputs)
          /\ frame' = [run.frame EXCEPT
                          !.pc = "local",
                          !.max_nb_nodes = IF Len(q) > @ THEN Len(q) ELSE @]
          /\ trace' = [trace EXCEPT !.touched = run.touched]
    /\ UNCHANGED <<self, merge_only>>

\* As EqPop, for a worklist consumed from the front (FIFO).
EqPopLeft ==
    /\ frame.pc = "local"
    /\ fgraph.q # <<>>
    /\ LET node == Head(fgraph.q)
           resident == node \in fgraph.apply_nodes
           lopts == IF resident THEN get_trackers(self, fgraph.op[node]) ELSE <<>>
       IN /\ fgraph' = [fgraph EXCEPT !.q = Tail(@),
                                      !.current_node = IF resident THEN node ELSE @]
          /\ frame' = [frame EXCEPT !.lopts = lopts,
                                    !.pc = IF lopts = <<>> THEN "local" ELSE "lopts"]
    /\ UNCHANGED <<self, trace, merge_only>>

\* node = q.pop(); a node that left the graph is skipped; else
\* current_node = node and its trackers are looked up.
EqPop ==
    /\ frame.pc = "local"
    /\ fgraph.q # <<>>
    /\ LET node == Last(fgraph.q)
           resident == node \in fgraph.apply_nodes
           lopts == IF resident THEN get_trackers(self, fgraph.op[node]) ELSE <<>>
       IN /\ fgraph' = [fgraph EXCEPT !.q = Front(@),
                                      !.current_node = IF resident THEN node ELSE @]
          /\ frame' = [frame EXCEPT !.lopts = lopts,
                                    !.pc = IF lopts = <<>> THEN "local" ELSE "lopts"]
    /\ UNCHANGED <<self, trace, merge_only>>

\* As LocalChange, for a driver that runs no cleanup after a local rewrite.
LocalChange_no_cleanup(g, fr, k) ==
    Run(g, [fr EXCEPT !.count["local_optimizers"][k] = @ + 1, !.changed = TRUE], TRUE)

\* After a successful process_node: the counts, changed = True, apply_cleanup.
LocalChange(g, fr, k) ==
    apply_cleanup(Run(g, [fr EXCEPT !.count["local_optimizers"][k] = @ + 1,
                                    !.changed = TRUE], TRUE))

\* One iteration of `for lopt in self.local_tracker.get_trackers(node.op)`.
EqLocal ==
    /\ frame.pc = "lopts"
    /\ \E k \in {Head(frame.lopts)} :
       \E res \in {NavigatorOptimizer_process_node(
                       [fgraph EXCEPT !.changed = FALSE], self, fgraph.current_node,
                       self.local_optimizers[k])} :
       \E run \in {IF res.ret THEN LocalChange(res.fgraph, frame, k)
                   ELSE Run([res.fgraph EXCEPT !.changed = @ \/ fgraph.changed], frame,
                            trace.touched \/ res.fgraph.changed)} :
       LET break == res.ret /\ fgraph.current_node \notin run.fgraph.apply_nodes
           rest == IF break THEN <<>> ELSE Tail(frame.lopts)
       IN /\ fgraph' = IF res.raised # "none" THEN detach_updater(run.fgraph)
                       ELSE run.fgraph
          /\ frame' = [run.frame EXCEPT
                          !.max_use_abort =
                              @ \/ (res.ret /\ ExceedsMaxUse(
                                                  run.frame.count["local_optimizers"][k],
                                                  run.frame.max_nb_nodes,
                                                  self.max_use_ratio)),
                          !.lopts = rest,
                          !.raised = res.raised,
                          !.pc = IF res.raised # "none" THEN "raised"
                                 ELSE IF rest = <<>> THEN "local" ELSE "lopts"]
          /\ trace' = [trace EXCEPT !.touched = run.touched]
    /\ UNCHANGED <<self, merge_only>>

\* finally: self.detach_updater(fgraph, u); then the final rewriters start.
EqFinalStart ==
    /\ frame.pc = "local"
    /\ fgraph.q = <<>>
    /\ fgraph' = detach_updater(fgraph)
    /\ frame' = [frame EXCEPT !.pc = "final", !.i = 1]
    /\ UNCHANGED <<self, trace, merge_only>>

\* for gopt in self.final_optimizers: ...
EqFinal == frame.pc = "final" /\ EqApply("final_optimizers")

\* The end of an iteration: changed |= apply_cleanup(...)
EqIterEnd ==
    /\ frame.pc = "final"
    /\ frame.i > Len(self.final_optimizers)
    /\ \E run \in {apply_cleanup(Run(fgraph, frame, trace.touched))} :
          /\ fgraph' = run.fgraph
          /\ frame' = [run.frame EXCEPT !.pc = "while"]
          /\ trace' = [trace EXCEPT !.touched = run.touched]
    /\ UNCHANGED <<self, merge_only>>

\* After the loop: on max_use_abort the AssertionError under
\* on_opt_error = "raise", the logged error otherwise; then the
\* ChangeTracker is removed and the profile returned.
EqReturn ==
    /\ frame.pc = "while"
    /\ ~(frame.changed /\ ~frame.max_use_abort)
    /\ IF frame.max_use_abort /\ self.on_opt_error = "raise"
       THEN /\ frame' = [frame EXCEPT !.pc = "raised", !.raised = "AssertionError"]
            /\ UNCHANGED fgraph
       ELSE /\ frame' = [frame EXCEPT !.pc = "done"]
            /\ fgraph' = [fgraph EXCEPT !.change_tracker = FALSE]
    /\ UNCHANGED <<self, trace, merge_only>>

EqNext ==
    \/ EqStart
    \/ EqIterate
    \/ EqGlobal
    \/ EqLocalStart
    \/ EqPop
    \/ EqLocal
    \/ EqFinalStart
    \/ EqFinal
    \/ EqIterEnd
    \/ EqReturn

SpecEq == EqInit /\ [][EqNext]_<<fgraph, driver_vars, merge_only>>

(***************************************************************************)
(* OpKeyOptimizer.apply.  op_key() of a rewriter built for one operator is *)
(* that operator; a rewriter may also give a list of operators.            *)
(* fgraph.get_nodes(op) is the query of the NodeFinder feature.            *)
(***************************************************************************)
\* A rewriter whose op_key() is the list ops.
Keyed(lopt, ops) == lopt @@ [op_key |-> ops]

\* lopt.op_key()
op_key(lopt) ==
    IF "op_key" \in DOMAIN lopt THEN [kind |-> "list", ops |-> lopt.op_key]
    ELSE [kind |-> "op", op |-> lopt.on]

\* fgraph.get_nodes(op): the resident nodes of operator op.
get_nodes(g, o) ==
    SelectSeq(IoToposort(g, g.outputs), LAMBDA n : g.op[n] = o)

RECURSIVE GetAllNodes(_, _)
\* reduce(list.__iadd__, map(fgraph.get_nodes, op))
GetAllNodes(g, ops) ==
    IF ops = <<>> THEN <<>> ELSE get_nodes(g, Head(ops)) \o GetAllNodes(g, Tail(ops))

\* The worklist apply starts with.
OpKeyQueue(g, key) ==
    IF key.kind = "list" THEN GetAllNodes(g, key.ops) ELSE get_nodes(g, key.op)

KeyedOptimizers ==
    {Swap, AB, NegNeg, OpRemove("identity"), Keyed(AB, <<"a", "b">>),
     Keyed(NegNeg, <<"neg">>), Keyed(AB, <<"neg", "a">>),
     LocalOpt("a", "b", "validate", "InconsistencyError"),
     LocalOpt("neg", "inner", "transform", "Exception")}

IsOpKey == "local_opt" \in DOMAIN self /\ "order" \notin DOMAIN self

OpKeyOptimizers ==
    [local_opt : KeyedOptimizers, ignore_newtrees : BOOLEAN,
     failure_callback : FailureCallbacks, on_opt_error : OnOptError]

OpKeyInit ==
    /\ fgraph \in DriverGraphs
    /\ self \in OpKeyOptimizers
    /\ frame = [pc |-> "start", raised |-> "none"]
    /\ trace = [initial |-> {}, visited |-> {}]
    /\ merge_pc = "idle" /\ pairs_list = <<>> /\ plan_idx = 0 /\ success = TRUE
    /\ nb_fail = 0 /\ nb_merged = 0 /\ nb_constant = 0 /\ env_steps = 0
    /\ last_plan = NoPlan /\ rejected = {} /\ runs = 0 /\ before = <<>>

\* op = self.local_opt.op_key(); q = ...; u = self.attach_updater(...)
OpKeyStart ==
    /\ IsOpKey /\ frame.pc = "start"
    /\ \E q \in {OpKeyQueue(fgraph, op_key(self.local_opt))} :
          /\ fgraph' = attach_updater([fgraph EXCEPT !.q = q, !.imported = {},
                                                     !.pruned = {},
                                                     !.op_key = op_key(self.local_opt)],
                                      self, FALSE)
          /\ trace' = [trace EXCEPT !.initial = Range(q)]
    /\ frame' = [frame EXCEPT !.pc = "loop"]
    /\ UNCHANGED <<self, merge_only>>

\* node = q.pop(); a node that left the graph is skipped; else
\* current_node = node; self.process_node(fgraph, node)
OpKeyVisit ==
    /\ IsOpKey /\ frame.pc = "loop"
    /\ fgraph.q # <<>>
    /\ \E node \in {Last(fgraph.q)} :
       \E res \in {IF node \in fgraph.apply_nodes
                   THEN NavigatorOptimizer_process_node(
                            [PopRight(fgraph) EXCEPT !.current_node = node],
                            self, node, self.local_opt)
                   ELSE Outcome(PopRight(fgraph), FALSE, "none")} :
          /\ fgraph' = IF res.raised # "none" THEN detach_updater(res.fgraph)
                       ELSE res.fgraph
          /\ frame' = [frame EXCEPT !.raised = res.raised,
                                    !.pc = IF res.raised # "none" THEN "raised" ELSE @]
          /\ trace' = [trace EXCEPT
                          !.visited = IF node \in fgraph.apply_nodes
                                      THEN @ \cup {node} ELSE @]
    /\ UNCHANGED <<self, merge_only>>

\* finally: self.detach_updater(fgraph, u)
OpKeyReturn ==
    /\ IsOpKey /\ frame.pc = "loop"
    /\ fgraph.q = <<>>
    /\ fgraph' = detach_updater(fgraph)
    /\ frame' = [frame EXCEPT !.pc = "done"]
    /\ UNCHANGED <<self, trace, merge_only>>

OpKeyNext == OpKeyStart \/ OpKeyVisit \/ OpKeyReturn

SpecOpKey == OpKeyInit /\ [][OpKeyNext]_<<fgraph, driver_vars, merge_only>>

(***************************************************************************)
(* topogroup_optimizer and its partial applications in2out and out2in, for *)
(* one local rewriter.  kwargs holds ignore_newtrees.                      *)
(***************************************************************************)
topogroup_optimizer(order, local_opts, ignore_newtrees, on_opt_error) ==
    [local_opt |-> local_opts, order |-> "in_to_out",
     ignore_newtrees |-> ignore_newtrees, failure_callback |-> "warn_inplace",
     on_opt_error |-> on_opt_error]

in2out(local_opts, ignore_newtrees, on_opt_error) ==
    topogroup_optimizer("in_to_out", local_opts, ignore_newtrees, on_opt_error)

out2in(local_opts, ignore_newtrees, on_opt_error) ==
    topogroup_optimizer("out_to_in", local_opts, ignore_newtrees, on_opt_error)

\* A pass of an optimizer built by in2out or by out2in; trace.factory is the
\* order the factory is named after.
FactoryInit ==
    /\ fgraph \in DriverGraphs
    /\ \E lo \in LocalOptimizers, ig \in BOOLEAN, cfg \in OnOptError :
          \/ /\ self = in2out(lo, ig, cfg)
             /\ trace = [initial |-> {}, visits |-> [n \in Nodes |-> 0],
                         asserted |-> FALSE, factory |-> "in_to_out"]
          \/ /\ self = out2in(lo, ig, cfg)
             /\ trace = [initial |-> {}, visits |-> [n \in Nodes |-> 0],
                         asserted |-> FALSE, factory |-> "out_to_in"]
    /\ frame = [pc |-> "start", nb |-> 0, raised |-> "none"]
    /\ merge_pc = "idle" /\ pairs_list = <<>> /\ plan_idx = 0 /\ success = TRUE
    /\ nb_fail = 0 /\ nb_merged = 0 /\ nb_constant = 0 /\ env_steps = 0
    /\ last_plan = NoPlan /\ rejected = {} /\ runs = 0 /\ before = <<>>

SpecFactory == FactoryInit /\ [][TopoNext]_<<fgraph, driver_vars, merge_only>>

(***************************************************************************)
(* pre_constant_merge and pre_greedy_local_optimizer.  They work on nodes  *)
(* that are not resident in fgraph: Apply objects held in op and inputs    *)
(* but absent from apply_nodes.                                            *)
(***************************************************************************)
InFunctionGraph_never(g, node) == FALSE

\* node in fgraph.apply_nodes: the test that keeps both helpers out of fgraph.
InFunctionGraph(g, node) == node \in g.apply_nodes

\* The state of one call of pre_constant_merge: the inputs of the nodes,
\* seen_var, const_sig_inv, and the value recursive_merge returned.
MergeState(g) ==
    [inputs |-> g.inputs, seen_var |-> {},
     const_sig_inv |-> [sg \in Signatures |-> <<>>], ret |-> <<>>]

\* var.owner.inputs[idx] = <the value just returned>
SetInput(st, node, idx) == [st EXCEPT !.inputs[node][idx] = st.ret]

RECURSIVE recursive_merge(_, _, _)
RECURSIVE MergeInputs(_, _, _, _)
\* recursive_merge(var)
recursive_merge(g, st, var) ==
    IF var \in st.seen_var THEN [st EXCEPT !.ret = var]
    ELSE IF HasOwner(var) /\ InFunctionGraph(g, Owner(var)) THEN [st EXCEPT !.ret = var]
    ELSE IF IsConstant(var)
    THEN IF st.const_sig_inv[MergeSignature(var)] # <<>>
         THEN [st EXCEPT !.seen_var = @ \cup {var},
                         !.ret = st.const_sig_inv[MergeSignature(var)]]
         ELSE [st EXCEPT !.seen_var = @ \cup {var},
                         !.const_sig_inv[MergeSignature(var)] = var, !.ret = var]
    ELSE IF HasOwner(var)
    THEN [MergeInputs(g, [st EXCEPT !.seen_var = @ \cup {var}], Owner(var), 1)
            EXCEPT !.ret = var]
    ELSE [st EXCEPT !.seen_var = @ \cup {var}, !.ret = var]

\* for idx, inp in enumerate(var.owner.inputs): ..., from position idx on.
MergeInputs(g, st, node, idx) ==
    IF idx > Len(st.inputs[node]) THEN st
    ELSE MergeInputs(g, SetInput(recursive_merge(g, st, st.inputs[node][idx]), node, idx),
                     node, idx + 1)

RECURSIVE MergeEach(_, _, _, _)
\* [recursive_merge(v) for v in variables], appended to rets.
MergeEach(g, st, variables, rets) ==
    IF variables = <<>> THEN [st EXCEPT !.ret = rets]
    ELSE MergeEach(g, recursive_merge(g, st, Head(variables)), Tail(variables),
                   Append(rets, recursive_merge(g, st, Head(variables)).ret))

\* pre_constant_merge(fgraph, variables): the inputs of the nodes after the
\* call, and in ret the list returned.
pre_constant_merge(g, variables) == MergeEach(g, MergeState(g), variables, <<>>)

\* The state of one call of pre_greedy_local_optimizer: the nodes (new ones
\* made by the rewriters included), optimized_vars, the list a call of
\* local_recursive_function returned, and the exception raised.
GreedyState(g) ==
    [g |-> g, optimized_vars |-> [v \in AllVars |-> <<>>], results |-> <<>>,
     raised |-> "none"]

RECURSIVE SetOptimized(_, _, _)
\* for k, v in zip(ks, vs): optimized_vars[k] = v
SetOptimized(st, ks, vs) ==
    IF ks = <<>> \/ vs = <<>> THEN st
    ELSE SetOptimized([st EXCEPT !.optimized_vars[Head(ks)] = Head(vs)], Tail(ks), Tail(vs))

\* node.inputs[idx] = nw_in
SetGreedyInput(st, node, idx, nw_in) == [st EXCEPT !.g.inputs[node][idx] = nw_in]

\* After the recursive call on inp: the outputs of its owner are recorded
\* and inp is replaced by the result at its own position.
Walked(st, node, idx, inp) ==
    IF st.raised # "none" THEN st
    ELSE SetGreedyInput(SetOptimized(st, OutputSeq(st.g, Owner(inp)), st.results),
                        node, idx, st.results[inp[3]])

\* After opt.transform returned ret for the node.
Optimized(st, node, ret) ==
    IF Len(ret) # Len(OutputSeq(st.g, node)) THEN [st EXCEPT !.raised = "AssertionError"]
    ELSE [SetOptimized(st, OutputSeq(st.g, node), ret) EXCEPT !.results = ret]

\* ret = opt.transform(fgraph, node), as a list, <<>> standing for False.
GreedyTransform(t) ==
    CASE t.kind = "list" -> t.news
      [] t.kind = "replace" -> <<t.new>>
      [] OTHER -> <<>>

RECURSIVE local_recursive_function(_, _, _)
RECURSIVE WalkInput(_, _, _, _, _)
RECURSIVE WalkInputs(_, _, _, _)
RECURSIVE AfterTransform(_, _, _, _, _)
RECURSIVE ApplyOptimizations(_, _, _, _)
\* local_recursive_function(list_opt, out, optimized_vars, depth)
local_recursive_function(st, list_opt, out) ==
    IF st.raised # "none" THEN st
    ELSE IF ~HasOwner(out) THEN [st EXCEPT !.results = <<out>>]
    ELSE IF InFunctionGraph(st.g, Owner(out))
    THEN [st EXCEPT !.results = OutputSeq(st.g, Owner(out))]
    ELSE ApplyOptimizations(
             [WalkInputs(st, list_opt, Owner(out), 1)
                 EXCEPT !.results = OutputSeq(st.g, Owner(out))],
             list_opt, Owner(out), list_opt)

\* The body of the loop over node.inputs, for the input inp at idx.
WalkInput(st, list_opt, node, idx, inp) ==
    IF st.optimized_vars[inp] # <<>>
    THEN SetGreedyInput(st, node, idx, st.optimized_vars[inp])
    ELSE IF HasOwner(inp)
    THEN Walked(local_recursive_function(st, list_opt, inp), node, idx, inp)
    ELSE [SetGreedyInput(st, node, idx, inp) EXCEPT !.optimized_vars[inp] = inp]

\* for idx, inp in enumerate(node.inputs): ..., from position idx on.
WalkInputs(st, list_opt, node, idx) ==
    IF st.raised # "none" \/ idx > Len(st.g.inputs[node]) THEN st
    ELSE WalkInputs(WalkInput(st, list_opt, node, idx, st.g.inputs[node][idx]),
                    list_opt, node, idx + 1)

\* The body of the loop over list_opt, after transform gave t.
AfterTransform(st, list_opt, node, opts, t) ==
    IF t.kind = "raise" THEN [st EXCEPT !.raised = Head(opts).exc]
    ELSE IF t.kind = "false" THEN ApplyOptimizations(st, list_opt, node, Tail(opts))
    ELSE IF Len(GreedyTransform(t)) # Len(OutputSeq(st.g, node))
            \/ HasOwner(GreedyTransform(t)[1])
    THEN ApplyOptimizations(Optimized([st EXCEPT !.g = t.g], node, GreedyTransform(t)),
                            list_opt, node, Tail(opts))
    ELSE Optimized([st EXCEPT !.g = t.g], node, GreedyTransform(t))

\* for opt in list_opt: ..., for the rewriters left in opts.
ApplyOptimizations(st, list_opt, node, opts) ==
    IF st.raised # "none" \/ opts = <<>> THEN st
    ELSE AfterTransform(st, list_opt, node, opts, Transform(Head(opts), st.g, node))

\* final_outs[out_index], for the state a call ended in.
FinalOut(st, out) ==
    IF st.raised # "none" THEN out
    ELSE st.results[IF HasOwner(out) THEN out[3] ELSE 1]

\* pre_greedy_local_optimizer(fgraph, optimizations, out): the state the
\* call ends in.
pre_greedy_local_optimizer(g, optimizations, out) ==
    local_recursive_function(GreedyState(g), optimizations, out)

\* The graphs the two helpers are called with: fgraph is what the outputs
\* reach, the other nodes are a fragment that is not installed.
PreGraphs ==
    {GraphOf(<< <<"add", <<ConstVar(1), ConstVar(2)>>>>,
                <<"mul", <<O(1), ConstVar(2), ConstVar(3)>>>>, <<"neg", <<O(2)>>>> >>,
             <<O(1)>>, FALSE),
     GraphOf(<< <<"neg", <<x>>>>, <<"mul", <<ConstVar(1), ConstVar(2), ConstVar(2)>>>>,
                <<"add", <<O(2), O(1), ConstVar(4)>>>> >>,
             <<O(1)>>, FALSE),
     GraphOf(<< <<"a", <<x, y>>>>, <<"neg", <<O(1)>>>>, <<"neg", <<O(2)>>>>,
                <<"a", <<O(3), ConstVar(1)>>>> >>,
             <<O(1)>>, FALSE),
     GraphOf(<< <<"identity", <<x>>>>, <<"identity", <<O(1)>>>>,
                <<"f", <<O(2), O(1)>>>> >>,
             <<O(1)>>, FALSE)}

\* The values the helpers are called on, and the lists of them.
PreVars(g) ==
    {OutVar(n, 1) : n \in {m \in Nodes : g.op[m] # "none"}} \cup {ConstVar(2), ConstVar(3)}
PreVariables(g) ==
    {<<v>> : v \in PreVars(g)} \cup {<<v, w>> : v \in PreVars(g), w \in PreVars(g)}

\* The lists of local rewriters given to pre_greedy_local_optimizer.
PreOptimizations ==
    {<<NegNeg>>, <<AB>>, <<AB, BA>>, <<OpRemove("identity")>>, <<OpRemove("a")>>,
     <<NegNeg, LocalOpt("a", "b", "transform", "Exception")>>}

PreInit ==
    /\ fgraph \in PreGraphs
    /\ self \in PreOptimizations
    /\ frame = [pc |-> "start", variables |-> <<>>, ret |-> <<>>, raised |-> "none",
                changed |-> FALSE]
    /\ trace = <<>>
    /\ merge_pc = "idle" /\ pairs_list = <<>> /\ plan_idx = 0 /\ success = TRUE
    /\ nb_fail = 0 /\ nb_merged = 0 /\ nb_constant = 0 /\ env_steps = 0
    /\ last_plan = NoPlan /\ rejected = {} /\ runs = 0 /\ before = <<>>

\* pre_constant_merge(fgraph, variables)
PreConstantMerge ==
    /\ frame.pc = "start"
    /\ \E variables \in PreVariables(fgraph) :
       \E st \in {pre_constant_merge(fgraph, variables)} :
          /\ fgraph' = [fgraph EXCEPT !.inputs = st.inputs]
          /\ frame' = [frame EXCEPT !.pc = "merged", !.variables = variables,
                                    !.ret = st.ret,
                                    !.changed = st.inputs # fgraph.inputs]
    /\ UNCHANGED <<self, trace, merge_only>>

\* pre_greedy_local_optimizer(fgraph, optimizations, out)
PreGreedy ==
    /\ frame.pc = "start"
    /\ \E out \in PreVars(fgraph) :
       \E st \in {pre_greedy_local_optimizer(fgraph, self, out)} :
          /\ fgraph' = st.g
          /\ frame' = [frame EXCEPT !.pc = "optimized", !.variables = <<out>>,
                                    !.ret = <<FinalOut(st, out)>>,
                                    !.raised = st.raised,
                                    !.changed = st.g.inputs # fgraph.inputs]
    /\ UNCHANGED <<self, trace, merge_only>>

SpecPre == PreInit /\ [][PreConstantMerge \/ PreGreedy]_<<fgraph, driver_vars, merge_only>>

\* Either navigator driver, run to its return: a TopoOptimizer pass or an
\* EquilibriumOptimizer run.  Both apply functions are loops that always
\* take their next step, hence the fairness on the steps.
NavInit == TopoInit \/ EqInit
NavNext == TopoNext \/ EqNext
NavReturned == frame.pc \in {"done", "raised"}
SpecNav ==
    /\ NavInit
    /\ [][NavNext]_<<fgraph, driver_vars, merge_only>>
    /\ ([]<>NavReturned \/ []<><<NavNext>>_<<fgraph, driver_vars, merge_only>>)

(***************************************************************************)
(* PatternSub.transform applied to a node of a graph.                      *)
(***************************************************************************)
PatternInit ==
    /\ fgraph \in PatternGraphs
    /\ self \in PatternSubs
    /\ frame = [pc |-> "start", node |-> NoNode, ret |-> False]
    /\ trace = <<>>
    /\ merge_pc = "idle" /\ pairs_list = <<>> /\ plan_idx = 0 /\ success = TRUE
    /\ nb_fail = 0 /\ nb_merged = 0 /\ nb_constant = 0 /\ env_steps = 0
    /\ last_plan = NoPlan /\ rejected = {} /\ runs = 0 /\ before = <<>>

\* ret = self.transform(fgraph, node)
PatternTransform ==
    /\ frame.pc = "start"
    /\ \E node \in fgraph.apply_nodes :
          frame' = [pc |-> "done", node |-> node,
                    ret |-> PatternSub_transform(fgraph, self, node)]
    /\ UNCHANGED <<fgraph, self, trace, merge_only>>

SpecPattern == PatternInit /\ [][PatternTransform]_<<fgraph, driver_vars, merge_only>>

(***************************************************************************)
(* SeqOptimizer.apply                                                      *)
(*                                                                         *)
(* A sub-rewriter is [lopt, raises]: its optimize applies one local        *)
(* rewrite as the whole-graph rewriters above and then raises the          *)
(* exception `raises`, if any.  The failure callback is None,              *)
(* SeqOptimizer.warn, or a callback that returns ("absorb").  trace        *)
(* records the sub-rewriters applied and those the callback was called     *)
(* with, in order.  An entry of l or of sub_profs is the position in       *)
(* self.data of the sub-rewriter whose call was timed, or whose optimize   *)
(* returned the profile.                                                   *)
(***************************************************************************)
SubRewriters ==
    {[lopt |-> AB, raises |-> "none"], [lopt |-> NegNeg, raises |-> "none"],
     [lopt |-> AB, raises |-> "Exception"], [lopt |-> NegNeg, raises |-> "AssertionError"]}

SeqOptimizers ==
    {[data |-> d, failure_callback |-> cb, on_opt_error |-> cfg] :
        d \in UNION {[1..n -> SubRewriters] : n \in 1..MaxSeq},
        cb \in {"None", "warn", "absorb"}, cfg \in OnOptError}

SeqInit ==
    /\ fgraph \in {GraphOf(<< <<"a", <<x, y>>>>, <<"neg", <<O(1)>>>>,
                              <<"neg", <<O(2)>>>> >>, <<O(3), O(1)>>, FALSE)}
    /\ self \in SeqOptimizers
    /\ frame = [pc |-> "start", k |-> 0, l |-> <<>>, sub_profs |-> <<>>,
                nb_nodes |-> <<>>, raised |-> "none"]
    /\ trace = [applied |-> <<>>, callbacks |-> <<>>]
    /\ merge_pc = "idle" /\ pairs_list = <<>> /\ plan_idx = 0 /\ success = TRUE
    /\ nb_fail = 0 /\ nb_merged = 0 /\ nb_constant = 0 /\ env_steps = 0
    /\ last_plan = NoPlan /\ rejected = {} /\ runs = 0 /\ before = <<>>

\* As SeqOptimizer_warn_raises, for a warn that re-raises under "pdb" too.
SeqOptimizer_warn_raises_pdb(on_opt_error) == on_opt_error \in {"raise", "pdb"}

\* SeqOptimizer.warn: TRUE when it re-raises the exception.
SeqOptimizer_warn_raises(on_opt_error) == on_opt_error = "raise"

\* As SeqRaises, for an apply that hands assertion failures to the callback too.
SeqRaisesUnlessCallback(slf, exc) ==
    \/ slf.failure_callback = "None"
    \/ slf.failure_callback = "warn" /\ SeqOptimizer_warn_raises(slf.on_opt_error)

\* The except clauses around optimizer.optimize: TRUE when the exception
\* leaves apply.
SeqRaises(slf, exc) ==
    \/ exc = "AssertionError"
    \/ slf.failure_callback = "None"
    \/ slf.failure_callback = "warn" /\ SeqOptimizer_warn_raises(slf.on_opt_error)

\* l = []; sub_profs = []; nb_nodes = []
SeqStart ==
    /\ frame.pc = "start"
    /\ frame' = [frame EXCEPT !.pc = "loop", !.k = 1]
    /\ UNCHANGED <<fgraph, self, trace, merge_only>>

\* One iteration of `for optimizer in self.data`.
SeqApply ==
    /\ frame.pc = "loop"
    /\ frame.k <= Len(self.data)
    /\ LET optimizer == self.data[frame.k]
           exc == optimizer.raises
           leaves == exc # "none" /\ SeqRaises(self, exc)
       IN /\ fgraph' = GlobalApply(optimizer.lopt, fgraph)
          /\ frame' = [frame EXCEPT
                          !.l = IF exc = "none" THEN Append(@, frame.k) ELSE @,
                          !.sub_profs = IF exc = "none" THEN Append(@, frame.k) ELSE @,
                          !.nb_nodes = IF exc = "none"
                                       THEN Append(@, <<Cardinality(fgraph.apply_nodes),
                                                        Cardinality(fgraph'.apply_nodes)>>)
                                       ELSE @,
                          !.raised = IF leaves THEN exc ELSE @,
                          !.pc = IF leaves THEN "raised" ELSE @,
                          !.k = IF leaves THEN @ ELSE @ + 1]
          /\ trace' = [trace EXCEPT
                          !.applied = Append(@, frame.k),
                          !.callbacks = IF exc \notin {"none", "AssertionError"}
                                           /\ self.failure_callback # "None"
                                        THEN Append(@, frame.k) ELSE @]
    /\ UNCHANGED <<self, merge_only>>

\* finally: self.pre_profile = ...; return self.pre_profile
SeqReturn ==
    /\ frame.pc = "loop"
    /\ frame.k > Len(self.data)
    /\ frame' = [frame EXCEPT !.pc = "done"]
    /\ UNCHANGED <<fgraph, self, trace, merge_only>>

SeqNext == SeqStart \/ SeqApply \/ SeqReturn

SpecSeq == SeqInit /\ [][SeqNext]_<<fgraph, driver_vars, merge_only>>

(***************************************************************************)
(* LocalOptTracker.  tracks() of a rewriter is "None" or a list of items   *)
(* <<"type", cls>> and <<"inst", op>>; a rewriter built for one operator   *)
(* (LocalOpt, PatternSub, OpRemove) tracks that Op instance.  The dicts    *)
(* tracked_types and tracked_instances are functions whose domain is the   *)
(* set of keys present.  cache is the lru_cache of get_trackers, keyed by  *)
(* the operator.  self is the tracker, frame the last call made on it and  *)
(* its result, trace.added the rewriters registered so far and trace.at    *)
(* the number of them when the list cached for an operator was computed.   *)
(***************************************************************************)
\* The number of add_tracker calls made on one tracker.
MaxTrackers == 3

\* type(op), and the method resolution order of a class.
type(o) ==
    CASE o = "add" -> "Add" [] o = "neg" -> "Neg" [] o = "split" -> "Split"
      [] OTHER -> "Op"
compose_mro(cls) ==
    CASE cls = "Add" -> <<"Add", "Elemwise", "Op", "object">>
      [] cls = "Neg" -> <<"Neg", "Elemwise", "Op", "object">>
      [] cls = "Split" -> <<"Split", "Op", "object">>
      [] OTHER -> <<"Op", "object">>

\* rw.tracks()
tracks(rw) == IF "tracks" \in DOMAIN rw THEN rw.tracks ELSE << <<"inst", rw.on>> >>

\* d.get(k, []) and d.setdefault(k, []).append(rw)
DictGet(d, k) == IF k \in DOMAIN d THEN d[k] ELSE <<>>
DictAppend(d, k, rw) ==
    IF k \in DOMAIN d THEN [d EXCEPT ![k] = Append(@, rw)] ELSE d @@ (k :> <<rw>>)

\* LocalOptTracker()
LocalOptTracker ==
    [tracked_instances |-> <<>>, tracked_types |-> <<>>, untracked_opts |-> <<>>,
     cache |-> <<>>]

RECURSIVE AddTracks(_, _, _)
\* for c in tracks: a class goes to tracked_types, an instance to
\* tracked_instances.
AddTracks(tr, rw, cs) ==
    IF cs = <<>> THEN tr
    ELSE AddTracks(IF Head(cs)[1] = "type"
                   THEN [tr EXCEPT !.tracked_types = DictAppend(@, Head(cs)[2], rw)]
                   ELSE [tr EXCEPT !.tracked_instances = DictAppend(@, Head(cs)[2], rw)],
                   rw, Tail(cs))

\* LocalOptTracker.add_tracker(rw)
add_tracker(tr, rw) ==
    IF tracks(rw) = "None" THEN [tr EXCEPT !.untracked_opts = Append(@, rw)]
    ELSE AddTracks(tr, rw, tracks(rw))

RECURSIVE MatchesAlong(_, _)
\* for t in mro: matches.extend(self.tracked_types.get(t))
MatchesAlong(tr, mro) ==
    IF mro = <<>> THEN <<>>
    ELSE DictGet(tr.tracked_types, Head(mro)) \o MatchesAlong(tr, Tail(mro))

\* LocalOptTracker._find_impl(cls)
find_impl(tr, cls) == MatchesAlong(tr, compose_mro(cls))

\* As Trackers, for a list that starts with the instance matches.
Trackers_instances_first(tr, op) ==
    DictGet(tr.tracked_instances, op) \o find_impl(tr, type(op)) \o tr.untracked_opts

\* The body of get_trackers.
Trackers(tr, op) ==
    find_impl(tr, type(op)) \o DictGet(tr.tracked_instances, op) \o tr.untracked_opts

\* LocalOptTracker.get_trackers(op) under functools.lru_cache: the tracker
\* with its cache after the call, and the list returned.
LocalOptTracker_get_trackers(tr, op) ==
    IF op \in DOMAIN tr.cache
    THEN [tracker |-> tr, result |-> tr.cache[op]]
    ELSE [tracker |-> [tr EXCEPT !.cache = @ @@ (op :> Trackers(tr, op))],
          result |-> Trackers(tr, op)]

Tracking(name, tracked) == [name |-> name, tracks |-> tracked]

\* The rewriters registered, and the operators looked up.
TrackedRewriters ==
    {Tracking("add_inst", << <<"inst", "add">> >>),
     Tracking("elemwise", << <<"type", "Elemwise">> >>),
     Tracking("add_cls", << <<"type", "Add">> >>),
     Tracking("split_or_neg", << <<"inst", "split">>, <<"type", "Neg">> >>),
     Tracking("any", "None"),
     Tracking("nothing", <<>>)}
TrackerOps == {"add", "neg", "split"}

TrackerInit ==
    /\ self = LocalOptTracker
    /\ frame = [pc |-> "idle", op |-> "none", result |-> <<>>, hit |-> FALSE]
    /\ trace = [added |-> <<>>, at |-> [o \in TrackerOps |-> 0]]
    /\ fgraph = EmptyGraph
    /\ merge_pc = "idle" /\ pairs_list = <<>> /\ plan_idx = 0 /\ success = TRUE
    /\ nb_fail = 0 /\ nb_merged = 0 /\ nb_constant = 0 /\ env_steps = 0
    /\ last_plan = NoPlan /\ rejected = {} /\ runs = 0 /\ before = <<>>

\* tracker.add_tracker(rw)
TrackerAdd ==
    /\ Len(trace.added) < MaxTrackers
    /\ \E rw \in TrackedRewriters :
          /\ self' = add_tracker(self, rw)
          /\ trace' = [trace EXCEPT !.added = Append(@, rw)]
    /\ frame' = [pc |-> "added", op |-> "none", result |-> <<>>, hit |-> FALSE]
    /\ UNCHANGED <<fgraph, merge_only>>

\* tracker.get_trackers(op)
TrackerGet ==
    /\ \E op \in TrackerOps :
       \E r \in {LocalOptTracker_get_trackers(self, op)} :
          /\ self' = r.tracker
          /\ frame' = [pc |-> "returned", op |-> op, result |-> r.result,
                       hit |-> op \in DOMAIN self.cache]
          /\ trace' = IF op \in DOMAIN self.cache THEN trace
                       ELSE [trace EXCEPT !.at[op] = Len(trace.added)]
    /\ UNCHANGED <<fgraph, merge_only>>

TrackerNext == TrackerAdd \/ TrackerGet

SpecTracker == TrackerInit /\ [][TrackerNext]_<<fgraph, driver_vars, merge_only>>

(***************************************************************************)
(* LocalOptGroup.transform.  self is the group: its rewriters, the         *)
(* apply_all_opts flag and the tracker __init__ fills.  frame holds the    *)
(* locals node and repl and the value returned; a replacement is           *)
(* [kind |-> "None"] or [kind |-> "list", vars |-> the values].  The       *)
(* rewriters build their new Apply objects outside the graph; an Apply     *)
(* object that neither the graph nor a local refers to any more is         *)
(* garbage, and its identifier is used again.  trace records the number of *)
(* rewriters the last pass of the loop called, the last successful         *)
(* replacement and whether the first pass is still to come.                *)
(***************************************************************************)
None == [kind |-> "None"]
ListOf(vs) == [kind |-> "list", vars |-> vs]

RECURSIVE AddTrackers(_, _)
\* for o in self.opts: self.tracker.add_tracker(o)
AddTrackers(tr, opts) ==
    IF opts = <<>> THEN tr ELSE AddTrackers(add_tracker(tr, Head(opts)), Tail(opts))

\* LocalOptGroup(*optimizers, apply_all_opts=...)
LocalOptGroup(optimizers, apply_all_opts) ==
    [opts |-> optimizers, apply_all_opts |-> apply_all_opts,
     tracker |-> AddTrackers(LocalOptTracker, optimizers)]

\* The value of opt.transform as the group sees it: None for False, None and
\* the empty list.
NewRepl(t) ==
    CASE t.kind = "replace" -> ListOf(<<t.new>>)
      [] t.kind = "list" /\ t.news # <<>> -> ListOf(t.news)
      [] OTHER -> None

\* The outcome of the for loop over opts: the graph with the objects built,
\* new_repl, the number of rewriters called and the exception raised.
Tried(g, new_repl, calls, raised) ==
    [g |-> g, new_repl |-> new_repl, calls |-> calls, raised |-> raised]

RECURSIVE LastSuccess(_, _, _, _)
\* As FirstSuccess, for a loop that does not break: every rewriter is
\* called and the last success is kept.
LastSuccess(g, node, opts, i) ==
    IF i > Len(opts) THEN Tried(g, None, Len(opts), "none")
    ELSE IF LastSuccess(g, node, opts, i + 1).new_repl # None
            \/ NewRepl(Transform(opts[i], g, node)) = None
    THEN LastSuccess(g, node, opts, i + 1)
    ELSE Tried(Transform(opts[i], g, node).g,
               NewRepl(Transform(opts[i], g, node)), Len(opts), "none")

RECURSIVE FirstSuccess(_, _, _, _)
RECURSIVE AfterOpt(_, _, _, _)
\* for opt in opts: new_repl = opt.transform(fgraph, node);
\* if not new_repl: continue; ...; break
FirstSuccess(g, node, opts, i) ==
    IF i > Len(opts) THEN Tried(g, None, Len(opts), "none")
    ELSE AfterOpt(Transform(opts[i], g, node), node, opts, i)

AfterOpt(t, node, opts, i) ==
    IF t.kind = "raise" THEN Tried(t.g, None, i, opts[i].exc)
    ELSE IF NewRepl(t) = None THEN FirstSuccess(t.g, node, opts, i + 1)
    ELSE Tried(t.g, NewRepl(t), i, "none")

\* The Apply objects the values vs depend on.
Referenced(g, vs) == UNION {AncestorsOfVar(g, vs[i]) : i \in DOMAIN vs}

\* The graph once the Apply objects outside it that the values vs do not
\* depend on are garbage.
Collected(g, vs) ==
    [g EXCEPT !.op = [n \in Nodes |->
                         IF n \in g.apply_nodes \cup Referenced(g, vs)
                         THEN g.op[n] ELSE "none"],
              !.inputs = [n \in Nodes |->
                             IF n \in g.apply_nodes \cup Referenced(g, vs)
                             THEN g.inputs[n] ELSE <<>>]]

\* The member rewriters of the groups.
GroupLists ==
    {<<>>, <<AB, BA>>, <<AB, OpRemove("a")>>, <<NegNeg, AB>>, <<AddZero, Swap>>,
     <<AddZero, MulOne>>, <<OpRemove("identity")>>,
     <<LocalOpt("neg", "inner", "transform", "Exception"), NegNeg>>,
     <<First, OpRemove("split")>>}

LocalOptGroups ==
    {LocalOptGroup(opts, all) : opts \in GroupLists, all \in BOOLEAN}

GroupInit ==
    /\ fgraph \in EqGraphs
    /\ self \in LocalOptGroups
    /\ frame \in {[pc |-> "start", node |-> n, repl |-> None, ret |-> None,
                   raised |-> "none"] : n \in Nodes}
    /\ frame.node \in fgraph.apply_nodes
    /\ trace = [calls |-> 0, last |-> None, first |-> TRUE]
    /\ merge_pc = "idle" /\ pairs_list = <<>> /\ plan_idx = 0 /\ success = TRUE
    /\ nb_fail = 0 /\ nb_merged = 0 /\ nb_constant = 0 /\ env_steps = 0
    /\ last_plan = NoPlan /\ rejected = {} /\ runs = 0 /\ before = <<>>

\* if len(self.opts) == 0: return; repl = None
GroupStart ==
    /\ frame.pc = "start"
    /\ "opts" \in DOMAIN self
    /\ frame' = [frame EXCEPT !.pc = IF Len(self.opts) = 0 THEN "done" ELSE "loop"]
    /\ UNCHANGED <<fgraph, self, trace, merge_only>>

\* The end of one pass of `while True`, the for loop having given tried: the
\* transform returns, or goes on with the owner of the first new value.
GroupAfter(tried) ==
    /\ frame' =
           IF tried.raised # "none"
           THEN [frame EXCEPT !.pc = "raised", !.raised = tried.raised]
           ELSE IF tried.new_repl = None
           THEN [frame EXCEPT !.pc = "done", !.ret = frame.repl]
           ELSE IF ~self.apply_all_opts \/ ~HasOwner(tried.new_repl.vars[1])
           THEN [frame EXCEPT !.pc = "done", !.ret = tried.new_repl]
           ELSE [frame EXCEPT !.repl = tried.new_repl,
                              !.node = Owner(tried.new_repl.vars[1])]
    /\ fgraph' = IF tried.new_repl = None THEN tried.g
                 ELSE Collected(tried.g, tried.new_repl.vars)
    /\ trace' = [calls |-> tried.calls,
                 last |-> IF tried.new_repl = None THEN trace.last
                          ELSE tried.new_repl,
                 first |-> FALSE]

\* One pass of `while True`: opts = self.tracker.get_trackers(node.op), the
\* for loop over opts, and the tests after it.
GroupPass ==
    /\ frame.pc = "loop"
    /\ \E r \in {LocalOptTracker_get_trackers(self.tracker, fgraph.op[frame.node])} :
          /\ self' = [self EXCEPT !.tracker = r.tracker]
          /\ \E tried \in {FirstSuccess(fgraph, frame.node, r.result, 1)} :
                GroupAfter(tried)
    /\ UNCHANGED merge_only

GroupNext == GroupStart \/ GroupPass

GroupReturned == frame.pc \in {"done", "raised"}

SpecGroup == GroupInit /\ [][GroupNext]_<<fgraph, driver_vars, merge_only>>

\* The transform is not suspended for ever.
SpecGroupLive ==
    /\ SpecGroup
    /\ WF_<<fgraph, driver_vars, merge_only>>(GroupNext)

\* The pass has returned.
TopoDone == frame.pc = "done"

\* The nodes the pass had in its queue: those of the initial toposort and,
\* with the Updater attached, those imported since.
Queued == trace.initial \cup (IF self.ignore_newtrees THEN {} ELSE fgraph.imported)

\* C8: during one TopoOptimizer.apply, process_node is called exactly once
\* for each node of the initial graph and, when ignore_newtrees is false,
\* exactly once for each node imported during the pass.
C8_EachNodeOnce == TopoDone => \A n \in Queued : trace.visits[n] = 1

\* C8, amended: exactly once for each such node that was never pruned during
\* the pass; only queued nodes are processed; and with ignore_newtrees no
\* node is processed twice.
C8_EachResidentNodeOnce ==
    /\ TopoDone => \A n \in Queued \ fgraph.pruned : trace.visits[n] = 1
    /\ \A n \in Nodes : trace.visits[n] > 0 => n \in Queued
    /\ self.ignore_newtrees => \A n \in Nodes : trace.visits[n] <= 1

\* A pass that processed, once, a node imported by a rewrite.
C8_Witness ==
    /\ TopoDone /\ ~self.ignore_newtrees
    /\ \E n \in fgraph.imported \ (trace.initial \cup fgraph.pruned) :
          n \in fgraph.apply_nodes /\ trace.visits[n] = 1

\* The callback and configuration under which an AssertionError leaves
\* process_node.
Propagating ==
    \/ self.failure_callback = "None"
    \/ self.failure_callback \in {"warn", "warn_inplace"} /\ self.on_opt_error # "pdb"

AllCounts ==
    IF frame.pc = "start" THEN {}
    ELSE UNION {Range(frame.count[list]) : list \in EqLists}

\* apply returned without the use-ratio abort.
EqDone == frame.pc = "done" /\ ~frame.max_use_abort

\* C5: EquilibriumOptimizer.apply makes at most ceil(max_nodes * max_use_ratio)
\* successful rewriter applications; stated for each rewriter on its own,
\* which the bound on their total implies.
C5_UseBound ==
    \A c \in AllCounts :
        c = 0 \/ (c - 1) * self.max_use_ratio[2] < frame.max_nb_nodes * self.max_use_ratio[1]

\* C6: when apply returns without the abort flag, no rewriter imported a node
\* or changed an input during the last complete iteration.
C6_LastIterationUntouched == EqDone => ~trace.touched

\* C6, amended: the last complete iteration left the graph as it found it
\* and counted no successful application.
C6_LastIterationUnchanged ==
    EqDone => Structure(fgraph) = trace.iter_start /\ frame.count = trace.iter_count

\* A return after an iteration that changed the graph and one that did not.
C6_Witness ==
    /\ EqDone /\ trace.iterations >= 2
    /\ \E c \in AllCounts : c > 0

\* C7: once the count of any rewriter exceeds max_use no iteration of the
\* driver loop is started, and apply does not return normally from the abort
\* when on_opt_error is "raise".
C7_UseRatioAbort ==
    /\ ~trace.overrun
    /\ (frame.pc = "done" /\ frame.max_use_abort) => self.on_opt_error # "raise"

\* The sub-rewriters applied are the first ones of the list, in list order.
AppliedInOrder == trace.applied = [j \in 1..Len(trace.applied) |-> j]

\* The sub-rewriters that raised a non-assertion exception with a failure
\* callback configured.
Recovered ==
    {j \in Range(trace.applied) :
        self.data[j].raises = "Exception" /\ self.failure_callback # "None"}

\* The exception of sub-rewriter j ended apply.
EndedBy(j) == frame.pc = "raised" /\ frame.k = j

\* C10: the sub-rewriters are invoked in list order, each at most once; after
\* a non-assertion exception with a callback configured, the callback is
\* invoked with that rewriter and the loop goes on with the remaining ones.
C10_SeqOrderAndRecovery ==
    /\ AppliedInOrder
    /\ \A j \in Recovered : j \in Range(trace.callbacks) /\ ~EndedBy(j)
    /\ frame.pc = "done" => Len(trace.applied) = Len(self.data)

\* C10, amended: the loop goes on unless the callback raises, which
\* SeqOptimizer.warn does under on_opt_error = "raise".
C10_SeqOrderAndRecoveryUnlessRaise ==
    /\ AppliedInOrder
    /\ \A j \in Recovered :
          /\ j \in Range(trace.callbacks)
          /\ EndedBy(j) <=> (self.failure_callback = "warn" /\ self.on_opt_error = "raise")
    /\ frame.pc = "done" => Len(trace.applied) = Len(self.data)

\* The first sub-rewriter raised, the callback returned, the others ran.
C10_Witness ==
    /\ frame.pc = "done" /\ Len(self.data) = MaxSeq
    /\ 1 \in Recovered /\ trace.callbacks # <<>>

\* C11: an AssertionError of a sub-rewriter leaves apply even with a failure
\* callback configured, the callback is not invoked with that rewriter and no
\* later sub-rewriter runs; with no callback every exception leaves apply.
C11_SeqAssertionReraised ==
    \A j \in Range(trace.applied) :
        /\ self.data[j].raises = "AssertionError" =>
              /\ EndedBy(j) /\ frame.raised = "AssertionError"
              /\ j \notin Range(trace.callbacks)
              /\ Len(trace.applied) = j
        /\ (self.failure_callback = "None" /\ self.data[j].raises # "none") =>
              /\ EndedBy(j) /\ frame.raised = self.data[j].raises
              /\ Len(trace.applied) = j

\* An AssertionError ended apply under an absorbing callback, before the
\* last sub-rewriter.
C11_Witness ==
    /\ frame.pc = "raised" /\ frame.raised = "AssertionError"
    /\ self.failure_callback = "absorb"
    /\ frame.k < Len(self.data)
    /\ trace.callbacks # <<>>

\* The last plan of the running pass raised InconsistencyError.
PlanFailed == merge_pc # "idle" /\ last_plan.outcome = "failed"

\* C12: a replacement that raises InconsistencyError appends (node,
\* candidate) to the blacklist, adds one to nb_fail and leaves the graph as it
\* was; the pass goes on with the next plan; no pair of the blacklist is
\* attempted again in the pass.
C12_FailedPlan ==
    /\ PlanFailed =>
          /\ fgraph.blacklist # <<>>
          /\ Last(fgraph.blacklist) = <<last_plan.node, last_plan.candidate>>
          /\ nb_fail = last_plan.fail_before + 1
          /\ last_plan.restored
          /\ last_plan.more => merge_pc = "plans" /\ plan_idx > 1
    /\ ~last_plan.retry

\* C13: within a pass every plan keeps the entries the blacklist had, and
\* the blacklist is empty whenever apply has ended, by return or by raise.
C13_BlacklistMonotone ==
    /\ last_plan.kept
    /\ merge_pc \in {"idle", "raised"} => fgraph.blacklist = <<>>

\* The graphs of scenario S3: the destroy capability, mul(x, y) twice
\* (nodes 1 and 2), and no change of the graph before the pass.
S3 == fgraph.destroy_handler /\ env_steps = 0

\* C14: in scenario S3 the first pass leaves both nodes resident and returns
\* nb_fail = 1 with an empty blacklist; once the plan was attempted, and until
\* the pass returns, the blacklist holds the pair.
C14_ScenarioS3 ==
    /\ (S3 /\ Returned /\ runs = 1) =>
          /\ {1, 2} \subseteq fgraph.apply_nodes
          /\ nb_fail = 1
          /\ fgraph.blacklist = <<>>
    /\ (S3 /\ merge_pc # "idle" /\ last_plan.outcome # "none") =>
          <<2, 1>> \in Range(fgraph.blacklist)

\* C15: a plan of a graph with the destroy capability whose old and new
\* outputs have together more than one destroying client, on whichever output
\* of the node, is skipped: no replacement, the graph unchanged, nb_fail and
\* the blacklist as they were.
C15_DestroyConflictSkipped ==
    (merge_pc # "idle" /\ last_plan.conflict) =>
        /\ last_plan.outcome = "destroy"
        /\ last_plan.restored
        /\ nb_fail = last_plan.fail_before
        /\ Len(fgraph.blacklist) = last_plan.fail_before

\* Distinct nodes of nodes_seen with equal operator and identical inputs.
SeenIdentical ==
    {p \in IdenticalPairs(fgraph) : {p[1], p[2]} \subseteq fgraph.nodes_seen}

\* C16: every node in nodes_seen is resident and no two distinct nodes in
\* nodes_seen have equal operator and pointwise-identical inputs.
C16_IndexInvariant ==
    /\ fgraph.nodes_seen \subseteq fgraph.apply_nodes
    /\ SeenIdentical = {}

\* C16, amended: two such nodes are in nodes_seen only if their replacement
\* raised InconsistencyError in a pass.
C16_IndexInvariantUnlessRejected ==
    /\ fgraph.nodes_seen \subseteq fgraph.apply_nodes
    /\ \A p \in SeenIdentical : <<p[1], p[2]>> \in rejected \/ <<p[2], p[1]>> \in rejected

\* The index after a pass that followed a change of the graph and made a
\* replacement.
C16_Witness ==
    /\ Returned /\ env_steps > 0 /\ nb_merged > 0
    /\ Cardinality(fgraph.nodes_seen) >= 2

\* The resident constants.
ResidentConstants == fgraph.variables \cap ConstVars

\* C17: after MergeOptimizer.apply no two distinct resident constants have
\* the same merge_signature(), whatever happened to the canonical constant of
\* the signature between scheduling and the pass.
C17_ConstantsMerged ==
    Returned =>
        \A c \in ResidentConstants : \A d \in ResidentConstants :
            MergeSignature(c) = MergeSignature(d) => c = d

\* C18: the profile counts the value pairs replaced by calls that did not
\* raise (nb_merged), the calls among them whose old value is a constant
\* (nb_constant) and the calls that raised InconsistencyError (nb_fail).
C18_Counters ==
    Returned =>
        /\ nb_merged = last_plan.replaced_pairs
        /\ nb_constant = last_plan.replaced_const
        /\ nb_fail = last_plan.failed

RECURSIVE Matched(_, _, _)
\* The values of the subgraph matched by a pattern at the value v: v and what
\* the subpatterns match below it.
Matched(g, pat, v) ==
    {v} \cup (IF pat[1] = "op" /\ HasOwner(v)
                 /\ Len(g.inputs[Owner(v)]) = Len(pat[3])
              THEN UNION {Matched(g, pat[3][i], g.inputs[Owner(v)][i]) :
                             i \in DOMAIN pat[3]}
              ELSE {})

\* C19: transform returns a replacement iff the operator is the root
\* operator, unification succeeds, the types agree and, unless
\* allow_multiple_clients, every value of the matched subgraph other than a
\* graph input has one client; values outside that subgraph have no say.
C19_PatternMatch ==
    frame.pc = "done" =>
        (frame.ret # False <=>
            /\ Match(fgraph, self, frame.node) # False
            /\ \/ self.allow_multiple_clients
               \/ \A v \in Matched(fgraph, self.in_pattern, OutVar(frame.node, 1))
                              \ InputVars :
                     Len(fgraph.clients[v]) = 1)

\* Scenario S4: PatternSub((add, 'x', 'y'), (add, 'y', 'x')) on the graph
\* add(a, b), under a TopoOptimizer or as the only rewriter of an
\* EquilibriumOptimizer.
S4 ==
    /\ 1 \in DOMAIN fgraph.op /\ fgraph.op[1] = "add"
    /\ \/ IsTopo /\ self.local_opt = Swap
       \/ IsEquilibrium /\ self.local_optimizers = <<Swap>>

\* The graph is the single node add(b, a) computing the output.
Swapped ==
    \E n \in fgraph.apply_nodes :
        /\ fgraph.apply_nodes = {n}
        /\ fgraph.op[n] = "add" /\ fgraph.inputs[n] = <<y, x>>
        /\ fgraph.outputs = <<OutVar(n, 1)>>

\* No rewriter is applied again once its count has passed max_use.
HaltedByMaxUse ==
    \A c \in AllCounts :
        c = 0 \/ ~ExceedsMaxUse(c - 1, frame.max_nb_nodes, self.max_use_ratio)

\* What scenario S4 says of a state of either driver.
S4Outcome ==
    /\ IsTopo /\ frame.nb >= 1 => Swapped
    /\ IsTopo /\ frame.pc = "done" => frame.nb = 1
    /\ IsEquilibrium => HaltedByMaxUse
    /\ IsEquilibrium /\ NavReturned => frame.max_use_abort

Unswapped ==
    \E n \in fgraph.apply_nodes :
        /\ fgraph.apply_nodes = {n}
        /\ fgraph.op[n] = "add" /\ fgraph.inputs[n] = <<x, y>>
        /\ fgraph.outputs = <<OutVar(n, 1)>>

S5 ==
    /\ IsTopo /\ self.local_opt = OpRemove("identity")
    /\ 3 \in DOMAIN fgraph.op /\ fgraph.op[3] = "f"

\* C21: every visit of the pass adds one to nb exactly when it replaced the
\* outputs of the node in the graph, and in scenario S5 the pass returns with
\* the graph f(a, b) and nb = 2.
C21_TopoCount ==
    /\ [][IsTopo /\ frame.pc = "loop" /\ frame'.pc # "done" =>
            /\ frame'.nb \in {frame.nb, frame.nb + 1}
            /\ frame'.nb = frame.nb + 1 <=> Structure(fgraph') # Structure(fgraph)
         ]_<<fgraph, driver_vars, merge_only>>
    /\ [](S5 /\ TopoDone =>
            /\ frame.nb = 2
            /\ fgraph.apply_nodes = {3} /\ fgraph.inputs[3] = <<x, y>>
            /\ fgraph.outputs = <<O(3)>>)

C21_Witness == S5 /\ TopoDone /\ frame.nb = 2 /\ fgraph.apply_nodes = {3}

\* Scenario S6: the rewrites (add, 'x', Const(0)) -> 'x' and
\* (mul, 'x', Const(1)) -> 'x' as the local rewriters of an
\* EquilibriumOptimizer, on mul(add(a, Const(0)), Const(1)).
S6 ==
    /\ IsEquilibrium /\ self.local_optimizers = <<AddZero, MulOne>>
    /\ 2 \in DOMAIN fgraph.op /\ fgraph.op[2] = "mul"

\* C22: in scenario S6 the driver ends with the graph output being a alone,
\* within 3 iterations of its loop, and with one successful application
\* counted for each of the two rules.
C22_ScenarioS6 ==
    /\ S6 => trace.iterations <= 3
    /\ S6 /\ NavReturned =>
          /\ fgraph.outputs = <<x>> /\ fgraph.apply_nodes = {}
          /\ frame.count["local_optimizers"] = <<1, 1>>

C22_Witness ==
    /\ S6 /\ frame.pc = "done" /\ ~frame.max_use_abort
    /\ fgraph.outputs = <<x>> /\ frame.count["local_optimizers"] = <<1, 1>>

\* The node the next visit of the pass pops.
NextVisited == IF self.order = "out_to_in" THEN Last(fgraph.q) ELSE Head(fgraph.q)

\* The next visit applies an OpRemove to a resident node of its operator
\* with no more outputs than inputs.
RemovableVisit ==
    /\ IsTopo /\ frame.pc = "loop" /\ fgraph.q # <<>>
    /\ self.local_opt.to = "remove"
    /\ NextVisited \in fgraph.apply_nodes
    /\ fgraph.op[NextVisited] = self.local_opt.on
    /\ NOut(fgraph.op[NextVisited]) <= Len(fgraph.inputs[NextVisited])

\* C23: an OpRemove applied by the driver to a node of its operator with at
\* most as many outputs as inputs is accepted: nothing is raised, the visit
\* counts as a replacement, the node leaves the graph and every use of its
\* output i has become a use of its input i.
C23_OpRemoveAccepted ==
    [][RemovableVisit =>
           /\ frame'.pc # "raised" /\ frame'.nb = frame.nb + 1
           /\ NextVisited \notin fgraph'.apply_nodes
           /\ \A n \in fgraph'.apply_nodes : \A k \in DOMAIN fgraph.inputs[n] :
                 \A i \in 1..NOut(fgraph.op[NextVisited]) :
                    fgraph.inputs[n][k] = OutVar(NextVisited, i)
                        => fgraph'.inputs[n][k] = fgraph.inputs[NextVisited][i]
    ]_<<fgraph, driver_vars, merge_only>>

\* s is the beginning of t.
IsPrefix(s, t) == Len(s) <= Len(t) /\ SubSeq(t, 1, Len(s)) = s

\* C24: out2in builds a TopoOptimizer of order "out_to_in" and in2out one of
\* order "in_to_out", and each visit of a pass takes the node at the end of
\* the queue the factory is named after: the last one (reverse topological
\* order) for out2in, the first one for in2out.
C24_FactoryOrder ==
    /\ [](self.order = trace.factory)
    /\ [][frame.pc = "loop" /\ fgraph.q # <<>> =>
            IF trace.factory = "out_to_in"
            THEN IsPrefix(Front(fgraph.q), fgraph'.q)
            ELSE IsPrefix(Tail(fgraph.q), fgraph'.q)
        ]_<<fgraph, driver_vars, merge_only>>

RECURSIVE FragmentClosure(_, _)
\* The nodes outside fgraph reached from the nodes acc without passing a
\* node of fgraph.
FragmentClosure(g, acc) ==
    IF {Owner(v) : v \in {w \in UNION {Range(g.inputs[n]) : n \in acc} :
                              HasOwner(w) /\ Owner(w) \notin g.apply_nodes}} \subseteq acc
    THEN acc
    ELSE FragmentClosure(g, acc \cup
             {Owner(v) : v \in {w \in UNION {Range(g.inputs[n]) : n \in acc} :
                                   HasOwner(w) /\ Owner(w) \notin g.apply_nodes}})

\* The same, from the values of a list.
FragmentOf(g, variables) ==
    FragmentClosure(g, {Owner(v) : v \in {w \in Range(variables) :
                                             HasOwner(w) /\ Owner(w) \notin g.apply_nodes}})

\* The constants that are inputs of the fragment under the given values.
FragmentConstants(g, variables) ==
    {v \in UNION {Range(g.inputs[n]) : n \in FragmentOf(g, variables)} : IsConstant(v)}

\* C25: after pre_constant_merge(fgraph, variables) no two distinct
\* constants of equal signature are left among the inputs of the nodes
\* reached from the given values outside fgraph: all were rewired to one
\* representative at every input position.
C25_PreConstantMerge ==
    frame.pc = "merged" =>
        \A c \in FragmentConstants(fgraph, frame.variables) :
        \A d \in FragmentConstants(fgraph, frame.variables) :
            MergeSignature(c) = MergeSignature(d) => c = d

\* C26: no call of pre_constant_merge or pre_greedy_local_optimizer changes
\* the nodes of fgraph, their operators and inputs, the outputs of fgraph or
\* the clients it records.
C26_ResidentUntouched ==
    [][/\ Structure(fgraph') = Structure(fgraph)
       /\ fgraph'.clients = fgraph.clients
    ]_<<fgraph, driver_vars, merge_only>>

\* A call changed a node outside fgraph that has an input computed by a node
\* of fgraph.
C26_Witness ==
    /\ frame.pc \in {"merged", "optimized"} /\ frame.changed /\ frame.raised = "none"
    /\ \E n \in FragmentOf(fgraph, frame.variables) :
          \E v \in Range(fgraph.inputs[n]) : HasOwner(v) /\ Owner(v) \in fgraph.apply_nodes

\* C27: each group the pass takes is the one scheduled last, and leaves the
\* LIFO; the plans of a group are taken one by one in their order; and once
\* the replacement of a plan was made, no replacement of a later plan of the
\* group is tried, so that a group makes at most one replacement.
C27_GroupOrder ==
    /\ [][/\ merge_pc = "loop" /\ merge_pc' = "plans" =>
              /\ pairs_list' = Last(fgraph.scheduled)
              /\ fgraph'.scheduled = Front(fgraph.scheduled)
              /\ plan_idx' = 1
          /\ merge_pc = "plans" /\ merge_pc' = "plans" =>
              pairs_list' = pairs_list /\ plan_idx' = plan_idx + 1
         ]_merge_vars
    /\ [](last_plan.in_group <= 1 /\ ~last_plan.late)

\* A replacement was made with plans of the group left, and the pass went
\* back to the LIFO.
C27_Witness ==
    /\ last_plan.outcome = "replaced" /\ last_plan.more /\ last_plan.in_group = 1
    /\ merge_pc = "loop"

\* C28: every successful merge of the pass strictly reduces the number of
\* apply nodes of the graph.
C28_MergeReduces ==
    last_plan.outcome = "replaced" => last_plan.nodes_after < last_plan.nodes_before

\* C28, by kind of plan: a successful merge of two nodes strictly reduces
\* the number of apply nodes; a successful merge of two constants leaves the
\* apply nodes as they are and removes a constant from the variables of the
\* graph.
C28_MergeReducesNodesOrConstants ==
    [][merge_pc = "plans" /\ last_plan'.outcome = "replaced" =>
          IF last_plan'.node # NoNode
          THEN Cardinality(fgraph'.apply_nodes) < Cardinality(fgraph.apply_nodes)
          ELSE /\ fgraph'.apply_nodes = fgraph.apply_nodes
               /\ Cardinality(fgraph'.variables) < Cardinality(fgraph.variables)
    ]_merge_vars

\* A merge of two nodes was made, and removed a node.
C28_Witness ==
    /\ last_plan.outcome = "replaced" /\ last_plan.node # NoNode
    /\ last_plan.nodes_after < last_plan.nodes_before

RECURSIVE CleanupRound(_, _)
\* The graph after the cleanup rewriters from the k-th on were applied to
\* it once each, in declared order.
CleanupRound(g, k) ==
    IF k > Len(self.cleanup_optimizers) THEN g
    ELSE CleanupRound(GlobalApply(self.cleanup_optimizers[k], g), k + 1)

\* C29: in each iteration the global rewriters run one by one in declared
\* order; the local phase starts only after the last of them and a cleanup
\* round, with the worklist being a toposort of the graph; the worklist is
\* consumed from its end; the final rewriters run one by one in declared
\* order, only once the worklist is empty; and the iteration ends, after the
\* last of them, with a cleanup round.
C29_PhaseOrder ==
    [][/\ frame.pc = "while" /\ frame'.pc = "global" => frame'.i = 1
       /\ frame.pc = "global" /\ frame'.pc = "global" =>
              /\ frame.i <= Len(self.global_optimizers) /\ frame'.i = frame.i + 1
              /\ Structure(fgraph') =
                     Structure(GlobalApply(self.global_optimizers[frame.i], fgraph))
       /\ frame.pc = "global" /\ frame'.pc = "local" =>
              /\ frame.i = Len(self.global_optimizers) + 1
              /\ Structure(fgraph') = Structure(CleanupRound(fgraph, 1))
              /\ fgraph'.q = IoToposort(fgraph', fgraph'.outputs)
       /\ frame'.pc = "lopts" => frame.pc \in {"local", "lopts"}
       /\ frame.pc = "local" /\ frame'.pc \in {"local", "lopts"} =>
              /\ fgraph.q # <<>> /\ fgraph'.q = Front(fgraph.q)
              /\ frame'.pc = "lopts" => fgraph'.current_node = Last(fgraph.q)
       /\ frame'.pc = "final" /\ frame.pc # "final" =>
              frame.pc = "local" /\ fgraph.q = <<>> /\ frame'.i = 1
       /\ frame.pc = "final" /\ frame'.pc = "final" =>
              /\ frame.i <= Len(self.final_optimizers) /\ frame'.i = frame.i + 1
              /\ Structure(fgraph') =
                     Structure(GlobalApply(self.final_optimizers[frame.i], fgraph))
       /\ frame.pc = "final" /\ frame'.pc = "while" =>
              /\ frame.i = Len(self.final_optimizers) + 1
              /\ Structure(fgraph') = Structure(CleanupRound(fgraph, 1))
    ]_<<fgraph, driver_vars, merge_only>>

\* An iteration ended in which a global, a local and a final rewriter each
\* changed the graph.
C29_Witness ==
    /\ IsEquilibrium /\ frame.pc = "while" /\ trace.iterations >= 1
    /\ \A list \in {"global_optimizers", "local_optimizers", "final_optimizers"} :
          \E k \in DOMAIN frame.count[list] : frame.count[list][k] >= 1

\* C30: when a cleanup pass returns, applying any cleanup rewriter again
\* would not change the graph.
C30_CleanupFixpoint ==
    [][\/ frame.pc = "global" /\ frame'.pc = "local"
       \/ frame.pc = "final" /\ frame'.pc = "while"
       => \A k \in DOMAIN self.cleanup_optimizers :
             Structure(GlobalApply(self.cleanup_optimizers[k], fgraph')) = Structure(fgraph')
    ]_<<fgraph, driver_vars, merge_only>>

\* C30, for the single round the pass makes: a cleanup pass applies each
\* cleanup rewriter once, in declared order, counting at most one
\* application for each.
C30_CleanupOneRound ==
    [][\/ frame.pc = "global" /\ frame'.pc = "local"
       \/ frame.pc = "final" /\ frame'.pc = "while"
       => /\ Structure(fgraph') = Structure(CleanupRound(fgraph, 1))
          /\ \A k \in DOMAIN self.cleanup_optimizers :
                frame'.count["cleanup_optimizers"][k]
                    - frame.count["cleanup_optimizers"][k] \in {0, 1}
          /\ Structure(fgraph') # Structure(fgraph) => frame'.changed
    ]_<<fgraph, driver_vars, merge_only>>

\* A cleanup pass returned after its rewriters changed the graph, leaving a
\* graph that one of them can change again.
C30_Witness ==
    /\ IsEquilibrium /\ frame.pc = "local" /\ fgraph.q # <<>>
    /\ \E k \in DOMAIN self.cleanup_optimizers :
          /\ frame.count["cleanup_optimizers"][k] >= 1
          /\ Structure(GlobalApply(self.cleanup_optimizers[k], fgraph)) # Structure(fgraph)

\* C31: in the local phase a popped node that is still resident gets the
\* rewriters that track its operator, in tracker order, and one that left
\* the graph is skipped with no rewriter called; each rewriter tried is the
\* next of that order on the same node; after a successful rewrite the
\* cleanup round is run, and the loop on the node stops if the node left the
\* graph and goes on with the next rewriter otherwise, as it does after a
\* rewrite that did not succeed.
C31_LocalPhase ==
    [][/\ frame.pc = "local" /\ fgraph.q # <<>> =>
              IF Last(fgraph.q) \in fgraph.apply_nodes
              THEN /\ fgraph'.current_node = Last(fgraph.q)
                   /\ frame'.lopts = get_trackers(self, fgraph.op[Last(fgraph.q)])
                   /\ frame'.pc = IF frame'.lopts = <<>> THEN "local" ELSE "lopts"
                   /\ Structure(fgraph') = Structure(fgraph)
              ELSE /\ frame'.pc = "local" /\ frame'.lopts = <<>>
                   /\ Structure(fgraph') = Structure(fgraph)
                   /\ frame'.count = frame.count
       /\ frame.pc = "lopts" =>
              /\ fgraph.current_node \in fgraph.apply_nodes
              /\ frame.lopts # <<>>
              /\ \E res \in {NavigatorOptimizer_process_node(
                                 fgraph, self, fgraph.current_node,
                                 self.local_optimizers[Head(frame.lopts)])} :
                    /\ frame'.raised = res.raised
                    /\ res.raised = "none" /\ ~res.ret =>
                          /\ Structure(fgraph') = Structure(fgraph)
                          /\ frame'.lopts = Tail(frame.lopts)
                          /\ frame'.count = frame.count
                    /\ res.ret =>
                          /\ Structure(fgraph') = Structure(CleanupRound(res.fgraph, 1))
                          /\ frame'.count["local_optimizers"][Head(frame.lopts)]
                                 = frame.count["local_optimizers"][Head(frame.lopts)] + 1
                          /\ frame'.lopts =
                                 IF fgraph.current_node \in fgraph'.apply_nodes
                                 THEN Tail(frame.lopts) ELSE <<>>
              /\ fgraph'.current_node = fgraph.current_node
              /\ frame'.pc = "lopts" <=> frame'.lopts # <<>> /\ frame'.raised = "none"
    ]_<<fgraph, driver_vars, merge_only>>

\* The second rewriter of a node is about to be tried on it, the first having
\* succeeded and left the node in the graph, with a cleanup rewriter present
\* or not.
C31_Witness ==
    /\ IsEquilibrium /\ frame.pc = "lopts"
    /\ Len(frame.lopts) = 1
    /\ Len(get_trackers(self, fgraph.op[fgraph.current_node])) = 2
    /\ frame.count["local_optimizers"][1] >= 1
    /\ fgraph.current_node \in fgraph.apply_nodes

\* C32: with tracks_on_change_inputs, every node other than the current one
\* whose input is changed by a step of the local phase is on the worklist
\* after the step, whatever ignore_newtrees is.
C32_ChangedInputsQueued ==
    [][IsEquilibrium /\ self.tracks_on_change_inputs /\ frame.pc = "lopts" =>
           \A n \in fgraph.apply_nodes :
               n # fgraph.current_node /\ fgraph'.inputs[n] # fgraph.inputs[n]
                   => n \in Range(fgraph'.q)
    ]_<<fgraph, driver_vars, merge_only>>

\* The node an iteration of TopoOptimizer.apply pops, the value transform
\* gives for it, and the pairs (old, new) of that value that are not
\* identity pairs (none when there is not one value for each output).
Popped == IF self.order = "out_to_in" THEN Last(fgraph.q) ELSE Head(fgraph.q)
Proposed == Transform(self.local_opt, fgraph, Popped)
ProposedPairs ==
    CASE Proposed.kind = "replace" ->
             repl_pairs(<<OutVar(Popped, 1)>>, <<Proposed.new>>)
      [] Proposed.kind = "list"
         /\ Len(Proposed.news) = Len(OutputSeq(fgraph, Popped)) ->
             repl_pairs(OutputSeq(fgraph, Popped), Proposed.news)
      [] OTHER -> <<>>
\* The graph accepts the proposed pairs: validation passes after them.
ProposedAccepted ==
    /\ ProposedPairs # <<>>
    /\ ReplaceAllValidate(Proposed.g, ProposedPairs,
                          self.local_opt.fail = "validate")[2]
\* transform raises, or the graph rejects the proposed pairs.
ProposedRaises ==
    \/ Proposed.kind = "raise"
    \/ ProposedPairs # <<>> /\ ~ProposedAccepted

\* C33: process_node returns True exactly when the graph accepted a
\* non-empty set of replacements, and the graph is then the one with the
\* pairs replaced; it returns False and leaves the graph as it was when
\* transform returns False, when every pair is an identity pair, and when
\* transform or validation raises and the failure callback returns; with no
\* failure callback the exception leaves process_node.
C33_ProcessNode ==
    [][IsTopo /\ frame.pc = "loop" /\ fgraph.q # <<>>
       /\ Popped \in fgraph.apply_nodes =>
           /\ frame'.nb = frame.nb + 1 <=> ProposedAccepted
           /\ frame'.nb \in {frame.nb, frame.nb + 1}
           /\ ProposedAccepted =>
                  /\ frame'.raised = "none"
                  /\ Structure(fgraph') =
                         Structure(ReplaceAll(Proposed.g, ProposedPairs))
           /\ Proposed.kind = "false" \/ (Proposed.kind = "replace" /\ ProposedPairs = <<>>) =>
                  /\ frame'.raised = "none"
                  /\ Structure(fgraph') = Structure(fgraph)
           /\ ProposedRaises /\ self.failure_callback # "None"
              /\ ~FailureCallbackRaises(self.failure_callback, self.local_opt.exc,
                                        self.on_opt_error) =>
                  /\ frame'.raised = "none"
                  /\ Structure(fgraph') = Structure(fgraph)
           /\ ProposedRaises /\ self.failure_callback = "None" =>
                  /\ frame'.raised = self.local_opt.exc
                  /\ frame'.pc = "raised"
    ]_<<fgraph, driver_vars, merge_only>>

\* process_node returned False after the failure callback absorbed the
\* exception of a validation, and the pass went on.
C33_Witness ==
    /\ IsTopo /\ frame.pc = "loop" /\ frame.nb = 0
    /\ self.local_opt.fail = "validate" /\ self.failure_callback # "None"
    /\ \E n \in trace.initial :
          /\ trace.visits[n] = 1 /\ n \in fgraph.apply_nodes
          /\ fgraph.op[n] = self.local_opt.on
          /\ Transform(self.local_opt, fgraph, n).kind = "replace"

\* rw applies to op: it is untracked, or tracks op or a class of op.
Applies(rw, op) ==
    \/ tracks(rw) = "None"
    \/ \E i \in DOMAIN tracks(rw) :
          \/ tracks(rw)[i] = <<"inst", op>>
          \/ tracks(rw)[i][1] = "type" /\ tracks(rw)[i][2] \in Range(compose_mro(type(op)))

\* The rewriters of the sequence added that satisfy Test, in the order added.
AddedWhere(added, Test(_)) == SelectSeq(added, Test)

RECURSIVE ClassMatches(_, _)
\* The rewriters added that track a class of mro, class by class along mro.
ClassMatches(added, mro) ==
    IF mro = <<>> THEN <<>>
    ELSE AddedWhere(added, LAMBDA rw : tracks(rw) # "None"
                                       /\ <<"type", Head(mro)>> \in Range(tracks(rw)))
             \o ClassMatches(added, Tail(mro))

\* The list get_trackers(op) is to return for the rewriters added.
ExpectedTrackers(added, op) ==
    ClassMatches(added, compose_mro(type(op)))
        \o AddedWhere(added, LAMBDA rw : tracks(rw) # "None"
                                         /\ <<"inst", op>> \in Range(tracks(rw)))
        \o AddedWhere(added, LAMBDA rw : tracks(rw) = "None")

\* C34: the list get_trackers(op) returns holds, of the rewriters registered
\* when the list was computed, first those that track a class of op, class
\* by class along the inheritance order of type(op), then those that track
\* the instance op, then the untracked ones, each in registration order; and
\* it holds no rewriter that does not apply to op.
C34_TrackerOrder ==
    frame.pc = "returned" =>
        /\ frame.result =
               ExpectedTrackers(SubSeq(trace.added, 1, trace.at[frame.op]), frame.op)
        /\ ~frame.hit => trace.at[frame.op] = Len(trace.added)
        /\ \A i \in DOMAIN frame.result : Applies(frame.result[i], frame.op)

\* get_trackers computed a list with a rewriter of each group, the class
\* group spanning two classes registered against the inheritance order.
C34_Witness ==
    /\ frame.pc = "returned" /\ ~frame.hit /\ frame.op = "add"
    /\ frame.result = <<Tracking("add_cls", << <<"type", "Add">> >>),
                        Tracking("elemwise", << <<"type", "Elemwise">> >>),
                        Tracking("add_inst", << <<"inst", "add">> >>)>>
    /\ trace.added = <<Tracking("add_inst", << <<"inst", "add">> >>),
                       Tracking("elemwise", << <<"type", "Elemwise">> >>),
                       Tracking("add_cls", << <<"type", "Add">> >>)>>

\* C39: whatever the interleaving of add_tracker and get_trackers calls, a
\* list get_trackers(op) returns holds every rewriter registered before the
\* call that applies to op.
C39_TrackersComplete ==
    frame.pc = "returned" =>
        \A i \in DOMAIN trace.added :
            Applies(trace.added[i], frame.op) => trace.added[i] \in Range(frame.result)

\* The rewriters of the group that track the operator of the node of the
\* running pass, in tracker order, and the positions in that list of those
\* whose transform gives a replacement for the node.
PassOpts == ExpectedTrackers(self.opts, fgraph.op[frame.node])
PassSuccesses ==
    {i \in DOMAIN PassOpts :
        NewRepl(Transform(PassOpts[i], fgraph, frame.node)) # None}
PassFirst == CHOOSE i \in PassSuccesses : \A j \in PassSuccesses : i <= j
PassRaises ==
    \E i \in DOMAIN PassOpts :
        /\ Transform(PassOpts[i], fgraph, frame.node).kind = "raise"
        /\ \A j \in PassSuccesses : i < j

C36_GroupTerminates == <>GroupReturned

\* The operator o is (one of) the operator(s) of op_key().
KeyMatches(key, o) ==
    IF key.kind = "list" THEN o \in Range(key.ops) ELSE o = key.op

\* C37: the worklist OpKeyOptimizer.apply starts with holds exactly the
\* resident nodes whose operator matches op_key(); only nodes whose operator
\* matches are processed; and, when ignore_newtrees is false, a node other
\* than the current one that a step imports and whose operator matches is on
\* the worklist after the step, whether op_key() is one operator or a list.
C37_OpKeyWorklist ==
    [][IsOpKey =>
          /\ frame.pc = "start" =>
                Range(fgraph'.q) =
                    {n \in fgraph.apply_nodes :
                        KeyMatches(op_key(self.local_opt), fgraph.op[n])}
          /\ \A n \in trace'.visited :
                KeyMatches(op_key(self.local_opt), fgraph.op[n])
          /\ frame.pc = "loop" /\ ~self.ignore_newtrees =>
                \A n \in fgraph'.imported \ fgraph.imported :
                    n # Last(fgraph.q)
                    /\ KeyMatches(op_key(self.local_opt), fgraph'.op[n])
                        => n \in Range(fgraph'.q)
    ]_<<fgraph, driver_vars, merge_only>>

\* C38: once apply has returned or raised, neither the Updater nor the
\* ChangeTracker it attached is attached to the graph.
C38_FeaturesRemoved ==
    frame.pc \in {"done", "raised"} => ~fgraph.updater /\ ~fgraph.change_tracker

\* C40: in the profile apply returns, the lists l, nb_nodes and sub_profs
\* have the same length and their entry i is that of the i-th sub-rewriter
\* of the sequence, also after the failure callback absorbed the failure of
\* an earlier sub-rewriter.
C40_ProfileAligned ==
    "data" \in DOMAIN self /\ frame.pc = "done" =>
        /\ Len(frame.l) = Len(frame.nb_nodes)
        /\ Len(frame.sub_profs) = Len(frame.nb_nodes)
        /\ \A i \in DOMAIN frame.l : frame.l[i] = i /\ frame.sub_profs[i] = i

====
